---- MODULE Spec2Model ----
(***************************************************************************)
(* Verification model of the derive_client bridge subsystem.               *)
(*                                                                         *)
(*   Spec          the bridge orchestrator (BridgeClient): _prepare_tx,    *)
(*                 send_bridge_tx, poll_bridge_progress and its stages,    *)
(*                 against a source chain, a relay and a target chain.     *)
(*   SpecFinality  wait_for_tx_finality, one poll step at a time.          *)
(*   SpecModels    the TxResult / BridgeTxResult dataclasses and their     *)
(*                 derived status properties.                              *)
(***************************************************************************)
EXTENDS Integers, Sequences, FiniteSets, TLC

VARIABLES
    \* ---- bridge orchestrator (Spec) ----
    pc,                 \* position of the orchestrator
    bridge,             \* BridgeType of the operation
    signed,             \* a SignedTransaction exists (BridgeTxDetails.signed_tx)
    broadcasts,         \* number of eth_sendRawTransaction calls made
    heightRead,         \* local target_from_block of send_bridge_tx
    heightFailed,       \* the block_number read of send_bridge_tx raised
    targetHead,         \* head of the target chain
    srcChain,           \* receipt of the source transaction on the source chain
    targetEvents,       \* completion events on the target chain
    tx_result,          \* the BridgeTxResult
    pollCount,          \* poll_bridge_progress calls made
    pollStages,         \* stages the current poll has performed
    pollStart,          \* the BridgeTxResult as it was when the current poll began
    targetScans,        \* wait_for_event scans issued on the target chain
    lastOutcome,        \* how the last poll_bridge_progress ended
    lastError,          \* the exception the last poll_bridge_progress raised
    \* ---- wait_for_tx_finality (SpecFinality) ----
    fpc, f_receipt, f_block_number, f_tx, f_now, f_iter, f_outcome, f_everReceipt,
    \* ---- dataclasses (SpecModels) ----
    m_source_receipt,   \* BridgeTxResult.source_tx.tx_receipt
    m_target_tx,        \* BridgeTxResult.target_tx
    m_status,           \* last value read from BridgeTxResult.status, with the leg statuses then
    m_tx_status,        \* last value read from TxResult.status, with the receipt then
    \* ---- prepare_deposit / prepare_withdrawal (SpecPrepare) ----
    p_pc,               \* position inside the running prepare call
    p_op,               \* Direction of the request
    p_currency,         \* Currency of the request
    p_amount,           \* amount of the request
    p_registry,         \* DeriveAddresses.chains
    p_balance,          \* token balance of the owner
    p_allowance,        \* ERC-20 allowance(owner, spender) on the chain
    p_fee,              \* fee the withdraw wrapper quotes for the request
    p_calls,            \* prepare calls started
    p_allowanceCalls,   \* one record per ensure_allowance call, in order
    p_sent,             \* approve transactions sent by the current call
    p_balanceOk,        \* the current call passed its balance check
    p_built,            \* the current call built the bridge transaction
    p_signed,           \* the current call signed the bridge transaction
    p_outcome,          \* how the current call ended
    p_bridge,           \* PreparedBridgeTx.bridge
    p_resultBridge,     \* BridgeTxResult.bridge
    p_ctx,              \* last direct _make_bridge_context call and its result
    p_route,            \* result of _resolve_socket_route in the current call
    \* ---- rotating provider middleware (SpecRotating) ----
    r_clock,            \* time.monotonic()
    r_pool,             \* the endpoints the middleware was made with
    r_heap,             \* EndpointStates in the heap
    r_state,            \* backoff and next_available of every EndpointState
    r_th,               \* per calling thread: position, now, state held, outcome
    \* ---- build, sign and send of one transaction (SpecTx) ----
    x_pc,               \* position in _prepare_tx / send_bridge_tx
    x_attempt,          \* attempt of exp_backoff_retry's loop
    x_delay,            \* delay of exp_backoff_retry's loop
    x_native,           \* the signer's native balance on the source chain
    x_value,            \* value argument of build_standard_transaction
    x_tx,               \* the transaction of the current attempt: gas, fee, balance read
    x_raised,           \* exceptions raised inside build_standard_transaction, in order
    x_simCalls,         \* w3.eth.call requests made by simulate_tx
    x_signed,           \* sign_tx returned a signed transaction
    x_broadcast,        \* send_raw_transaction accepted the transaction
    x_result,           \* send_bridge_tx returned a BridgeTxResult
    x_error,            \* the exception that reached the caller
    \* ---- withdrawal from the app-chain and its gas funding (SpecGas) ----
    g_pc,               \* position in the withdrawal
    g_entry,            \* who prepares the withdrawal: examples main or BridgeClient
    g_native,           \* the signer's native balance on the app-chain
    g_start,            \* that balance when the withdrawal began
    g_mainnet,          \* the signer's balance on mainnet
    g_cost,             \* gas cost of the funding transaction
    g_funding,          \* the gas-funding bridge transaction
    g_arrived,          \* the funding was relayed to the app-chain
    g_built,            \* the withdrawal transaction was built
    g_outcome,          \* how the withdrawal preparation ended
    \* ---- iter_events / wait_for_event (SpecEvents) ----
    e_pc,               \* position in iter_events
    e_consumer,         \* wait_for_event (first log only) or a loop over iter_events
    e_clock,            \* time.monotonic()
    e_deadline,         \* deadline, NONE without timeout
    e_head,             \* w3.eth.block_number as the provider asked would report it
    e_matches,          \* blocks holding a log that satisfies the condition
    e_from,             \* filter_params["fromBlock"] as passed
    e_ceiling,          \* fixed_ceiling, NONE for "latest"
    e_mbr,              \* max_block_range
    e_start,            \* start_block
    e_cursor,           \* cursor
    e_requests,         \* the get_logs requests built so far: from, to, head read
    e_attempt,          \* attempt of exp_backoff_retry around get_logs
    e_yielded,          \* blocks of the logs yielded so far, in order
    e_examined,         \* blocks whose logs a get_logs answer covered
    e_outcome,          \* how the generator ended
    \* ---- the lock and the heap of the rotating middleware (SpecLock) ----
    l_lock,             \* the thread inside a `with lock:` block, or "free"
    l_pool,             \* the endpoints the middleware was made with
    l_heap,             \* how many times each EndpointState is in the heap
    l_th,               \* per calling thread: position, local `state`, state held
    \* ---- exp_backoff_retry around any function (SpecRetry) ----
    rt_pc,              \* position of the wrapper
    rt_attempts,        \* keyword argument attempts
    rt_initial_delay,   \* keyword argument initial_delay
    rt_exceptions,      \* keyword argument exceptions
    rt_attempt,         \* loop variable attempt
    rt_delay,           \* local delay
    rt_calls,           \* invocations of func so far
    rt_slept,           \* the arguments of time.sleep so far, in order
    rt_raised,          \* the exceptions func raised so far, in order
    rt_result,          \* what the wrapper returned or raised
    \* ---- estimate_fees (SpecFees) ----
    fee_pc,             \* position of estimate_fees
    fee_percentiles,    \* len(percentiles)
    fee_rewards,        \* fee_history["reward"]: one row per block
    fee_base_fees,      \* fee_history["baseFeePerGas"]
    fee_buffer,         \* GAS_FEE_BUFFER as <<numerator, denominator>>
    fee_out,            \* the list estimate_fees returns
    \* ---- WsClient and its Channel objects, one channel name (SpecWs) ----
    ws_key,             \* channel is a key of WsClient._subscriptions
    ws_set,             \* the queues of _subscriptions[channel], by their Channel
    ws_server,          \* the server publishes the channel on this connection
    ws_conn,            \* the websocket: "open" or "closed"
    ws_loop,            \* _message_loop: "running" or "ended"
    ws_wire,            \* requests sent and not yet handled by the server
    ws_inbox,           \* messages of the server not yet read by _message_loop
    ws_co,              \* per Channel object: position, _open, id of its request
    ws_last,            \* the last message _message_loop handled and what it did
    ws_published,       \* subscription messages the server has published
    ws_ops              \* open() and close() calls made so far

bridgeVars == <<pc, bridge, signed, broadcasts, heightRead, heightFailed, targetHead,
                srcChain, targetEvents, tx_result, pollCount, pollStages,
                pollStart, targetScans, lastOutcome, lastError>>
finVars == <<fpc, f_receipt, f_block_number, f_tx, f_now, f_iter, f_outcome, f_everReceipt>>
modelVars == <<m_source_receipt, m_target_tx, m_status, m_tx_status>>
prepVars == <<p_pc, p_op, p_currency, p_amount, p_registry, p_balance, p_allowance,
              p_fee, p_calls, p_allowanceCalls, p_sent, p_balanceOk, p_built,
              p_signed, p_outcome, p_bridge, p_resultBridge, p_ctx, p_route>>
rotVars == <<r_clock, r_pool, r_heap, r_state, r_th>>
txVars == <<x_pc, x_attempt, x_delay, x_native, x_value, x_tx, x_raised, x_simCalls,
            x_signed, x_broadcast, x_result, x_error>>
gasVars == <<g_pc, g_entry, g_native, g_start, g_mainnet, g_cost, g_funding,
             g_arrived, g_built, g_outcome>>
evVars == <<e_pc, e_consumer, e_clock, e_deadline, e_head, e_matches, e_from, e_ceiling,
            e_mbr, e_start, e_cursor, e_requests, e_attempt, e_yielded,
            e_examined, e_outcome>>
lockVars == <<l_lock, l_pool, l_heap, l_th>>
retryVars == <<rt_pc, rt_attempts, rt_initial_delay, rt_exceptions, rt_attempt, rt_delay,
               rt_calls, rt_slept, rt_raised, rt_result>>
feeVars == <<fee_pc, fee_percentiles, fee_rewards, fee_base_fees, fee_buffer, fee_out>>
wsVars == <<ws_key, ws_set, ws_server, ws_conn, ws_loop, ws_wire, ws_inbox, ws_co, ws_last,
            ws_published, ws_ops>>
moreVars == <<retryVars, feeVars, wsVars>>
extraVars == <<txVars, gasVars, evVars, lockVars, moreVars>>
vars == <<bridgeVars, finVars, modelVars, prepVars, rotVars, extraVars>>

(***************************************************************************)
(* Bounds of the model.                                                    *)
(***************************************************************************)
MaxHead == 3
MaxPolls == 2
MaxLag == 1
MaxBlock == 4
FinalityBlocks == 2
Timeout == 1
PollInterval == 1

(***************************************************************************)
(* TxStatus (IntEnum) and the receipts the chains hand out.                *)
(***************************************************************************)
FAILED == 0
SUCCESS == 1
PENDING == 2

LAYERZERO == "LAYERZERO"
SOCKET == "SOCKET"

\* tx_receipt = None
NoReceipt == [present |-> FALSE, status |-> 0, logs |-> <<>>]

MkReceipt(st, lg) == [present |-> TRUE, status |-> st, logs |-> lg]

\* event_id = None
NoId == "none"

\* correlation id carried by the logs of the submitted transaction, and the
\* id of an unrelated message on the target chain
TrueId == "id_sent"
OtherId == "id_other"

Log(kind, id) == [kind |-> kind, id |-> id]

\* log lists a successful source receipt may carry
SourceLogChoices ==
    { <<Log("Transfer", NoId)>>,
      <<Log("MessageOutbound", TrueId), Log("Transfer", NoId)>>,
      <<Log("Transfer", NoId), Log("OFTSent", TrueId)>>,
      <<Log("OFTSent", TrueId), Log("Transfer", NoId)>> }

\* a status that takes every receipt for a success
TxResultStatusAnyReceipt(receipt) ==
    IF receipt.present THEN SUCCESS ELSE PENDING

\* TxResult.status
TxResultStatus(receipt) ==
    IF receipt.present THEN receipt.status ELSE PENDING

\* BridgeTxResult.status; target_tx is None when no target hash is recorded
BridgeTxResultStatus(source_receipt, has_target, target_receipt) ==
    IF TxResultStatus(source_receipt) # SUCCESS
    THEN TxResultStatus(source_receipt)
    ELSE IF has_target THEN TxResultStatus(target_receipt) ELSE PENDING

NoResult ==
    [exists |-> FALSE, source_receipt |-> NoReceipt, event_id |-> NoId,
     target_hash |-> 0, target_receipt |-> NoReceipt, target_from_block |-> 0]

Status(r) == BridgeTxResultStatus(r.source_receipt, r.target_hash # 0, r.target_receipt)

AllStagesComplete(r) ==
    r.source_receipt.present /\ r.target_hash # 0 /\ r.target_receipt.present

\* no exception
NoError == [kind |-> "none", stage |-> "none", cause |-> "none", carried |-> NoResult]

\* what wait_for_tx_finality raises
FinalityErrors == {"FinalityTimeout", "TxPendingTimeout", "TransactionDropped"}

otherThanBridge == <<finVars, modelVars, prepVars, rotVars, extraVars>>

(***************************************************************************)
(* Bridge orchestrator.                                                    *)
(***************************************************************************)
InitBridge ==
    /\ pc = "prepare"
    /\ bridge \in {LAYERZERO, SOCKET}
    /\ signed = FALSE
    /\ broadcasts = 0
    /\ heightRead = 0
    /\ heightFailed = FALSE
    /\ targetHead = 1
    /\ srcChain = NoReceipt
    /\ targetEvents = {}
    /\ tx_result = NoResult
    /\ pollCount = 0
    /\ pollStages = {}
    /\ pollStart = NoResult
    /\ targetScans = 0
    /\ lastOutcome = "none"
    /\ lastError = NoError

IdleBridge ==
    /\ pc = "off"
    /\ bridge = SOCKET
    /\ signed = FALSE
    /\ broadcasts = 0
    /\ heightRead = 0
    /\ heightFailed = FALSE
    /\ targetHead = 0
    /\ srcChain = NoReceipt
    /\ targetEvents = {}
    /\ tx_result = NoResult
    /\ pollCount = 0
    /\ pollStages = {}
    /\ pollStart = NoResult
    /\ targetScans = 0
    /\ lastOutcome = "none"
    /\ lastError = NoError

\* _prepare_tx: build_standard_transaction returns the transaction
BuildTx ==
    /\ pc = "prepare"
    /\ pc' = "built"
    /\ UNCHANGED <<bridge, signed, broadcasts, heightRead, heightFailed, targetHead,
                   srcChain, targetEvents, tx_result, pollCount, pollStages,
                   pollStart, targetScans, lastOutcome, lastError>>
    /\ UNCHANGED otherThanBridge

\* _prepare_tx: build_standard_transaction raises, nothing is signed
BuildTxFails ==
    /\ pc = "prepare"
    /\ pc' = "prepare_failed"
    /\ UNCHANGED <<bridge, signed, broadcasts, heightRead, heightFailed, targetHead,
                   srcChain, targetEvents, tx_result, pollCount, pollStages,
                   pollStart, targetScans, lastOutcome, lastError>>
    /\ UNCHANGED otherThanBridge

\* _prepare_tx: sign_tx and the PreparedBridgeTx
SignTx ==
    /\ pc = "built"
    /\ signed' = TRUE
    /\ pc' = "prepared"
    /\ UNCHANGED <<bridge, broadcasts, heightRead, heightFailed, targetHead,
                   srcChain, targetEvents, tx_result, pollCount, pollStages,
                   pollStart, targetScans, lastOutcome, lastError>>
    /\ UNCHANGED otherThanBridge

\* heights a provider of the target chain may report: the head or a lagging one
ReportedHeights(head) == { h \in 0..head : h + MaxLag >= head }

\* send_bridge_tx: target_from_block = await context.target_w3.eth.block_number
SubmitReadHeight ==
    /\ pc = "prepared"
    /\ \E h \in ReportedHeights(targetHead) : heightRead' = h
    /\ pc' = "submit_send"
    /\ UNCHANGED <<bridge, signed, broadcasts, heightFailed, targetHead,
                   srcChain, targetEvents, tx_result, pollCount, pollStages,
                   pollStart, targetScans, lastOutcome, lastError>>
    /\ UNCHANGED otherThanBridge

\* send_bridge_tx: the block_number read raises and the exception propagates
SubmitReadHeightFails ==
    /\ pc = "prepared"
    /\ heightFailed' = TRUE
    /\ pc' = "submit_failed"
    /\ UNCHANGED <<bridge, signed, broadcasts, heightRead, targetHead,
                   srcChain, targetEvents, tx_result, pollCount, pollStages,
                   pollStart, targetScans, lastOutcome, lastError>>
    /\ UNCHANGED otherThanBridge

\* send_bridge_tx: send_tx broadcasts the signed transaction
SubmitSend ==
    /\ pc = "submit_send"
    /\ broadcasts' = broadcasts + 1
    /\ pc' = "submit_build"
    /\ UNCHANGED <<bridge, signed, heightRead, heightFailed, targetHead,
                   srcChain, targetEvents, tx_result, pollCount, pollStages,
                   pollStart, targetScans, lastOutcome, lastError>>
    /\ UNCHANGED otherThanBridge

\* send_bridge_tx: send_raw_transaction raises
SubmitSendFails ==
    /\ pc = "submit_send"
    /\ pc' = "submit_failed"
    /\ UNCHANGED <<bridge, signed, broadcasts, heightRead, heightFailed, targetHead,
                   srcChain, targetEvents, tx_result, pollCount, pollStages,
                   pollStart, targetScans, lastOutcome, lastError>>
    /\ UNCHANGED otherThanBridge

\* a send_bridge_tx that reads the target height only after the broadcast
FromBlockRecordedLate == targetHead

\* the target_from_block send_bridge_tx puts into the BridgeTxResult
FromBlockRecorded == heightRead

\* send_bridge_tx: the BridgeTxResult with only the source side populated
SubmitBuildResult ==
    /\ pc = "submit_build"
    /\ tx_result' = [NoResult EXCEPT !.exists = TRUE,
                                     !.target_from_block = FromBlockRecorded]
    /\ pc' = "idle"
    /\ UNCHANGED <<bridge, signed, broadcasts, heightRead, heightFailed, targetHead,
                   srcChain, targetEvents, pollCount, pollStages,
                   pollStart, targetScans, lastOutcome, lastError>>
    /\ UNCHANGED otherThanBridge

(***************************************************************************)
(* The chains and the relay between them.                                  *)
(***************************************************************************)
\* the broadcast transaction is mined: it succeeds with logs, or reverts
\* (a reverted transaction has no logs)
SourceMine ==
    /\ broadcasts > 0
    /\ ~srcChain.present
    /\ \/ \E lg \in SourceLogChoices : srcChain' = MkReceipt(SUCCESS, lg)
       \/ srcChain' = MkReceipt(FAILED, <<>>)
    /\ UNCHANGED <<pc, bridge, signed, broadcasts, heightRead, heightFailed, targetHead,
                   targetEvents, tx_result, pollCount, pollStages,
                   pollStart, targetScans, lastOutcome, lastError>>
    /\ UNCHANGED otherThanBridge

HasEvent(id) == \E e \in targetEvents : e.id = id

\* the relay executes the message on the target chain in a new block
RelayDeliver ==
    /\ srcChain.present /\ srcChain.status = SUCCESS
    /\ ~HasEvent(TrueId)
    /\ targetHead < MaxHead
    /\ targetHead' = targetHead + 1
    /\ targetEvents' = targetEvents \cup
                         {[id |-> TrueId, block |-> targetHead + 1, hash |-> 1]}
    /\ UNCHANGED <<pc, bridge, signed, broadcasts, heightRead, heightFailed,
                   srcChain, tx_result, pollCount, pollStages,
                   pollStart, targetScans, lastOutcome, lastError>>
    /\ UNCHANGED otherThanBridge

\* somebody else's message completes on the target chain
ForeignEvent ==
    /\ ~HasEvent(OtherId)
    /\ targetHead < MaxHead
    /\ targetHead' = targetHead + 1
    /\ targetEvents' = targetEvents \cup
                         {[id |-> OtherId, block |-> targetHead + 1, hash |-> 2]}
    /\ UNCHANGED <<pc, bridge, signed, broadcasts, heightRead, heightFailed,
                   srcChain, tx_result, pollCount, pollStages,
                   pollStart, targetScans, lastOutcome, lastError>>
    /\ UNCHANGED otherThanBridge

TargetAdvance ==
    /\ pc # "off"
    /\ targetHead < MaxHead
    /\ targetHead' = targetHead + 1
    /\ UNCHANGED <<pc, bridge, signed, broadcasts, heightRead, heightFailed,
                   srcChain, targetEvents, tx_result, pollCount, pollStages,
                   pollStart, targetScans, lastOutcome, lastError>>
    /\ UNCHANGED otherThanBridge

(***************************************************************************)
(* poll_bridge_progress and its three stages.                              *)
(***************************************************************************)
pollUnchanged == <<bridge, signed, broadcasts, heightRead, heightFailed, targetHead,
                   srcChain, targetEvents>>

\* a poll that submits the signed transaction again
PollStartResubmits ==
    /\ pc = "idle"
    /\ pollCount < MaxPolls
    /\ pollCount' = pollCount + 1
    /\ pollStages' = {}
    /\ pollStart' = tx_result
    /\ lastOutcome' = "running"
    /\ lastError' = NoError
    /\ pc' = "poll_source"
    /\ broadcasts' = broadcasts + 1
    /\ UNCHANGED <<tx_result, targetScans>>
    /\ UNCHANGED <<bridge, signed, heightRead, heightFailed, targetHead,
                   srcChain, targetEvents>>
    /\ UNCHANGED otherThanBridge

\* poll_bridge_progress is called on the BridgeTxResult of submit
PollStart ==
    /\ pc = "idle"
    /\ pollCount < MaxPolls
    /\ pollCount' = pollCount + 1
    /\ pollStages' = {}
    /\ pollStart' = tx_result
    /\ lastOutcome' = "running"
    /\ lastError' = NoError
    /\ pc' = "poll_source"
    /\ UNCHANGED <<tx_result, targetScans>>
    /\ UNCHANGED pollUnchanged
    /\ UNCHANGED otherThanBridge

\* a wrapper that attaches a copy of the result taken when the poll began
PollRaisesStale(stage, cause) ==
    /\ pc' = "idle"
    /\ lastOutcome' = "raised"
    /\ lastError' = [kind |-> "PartialBridgeResult", stage |-> stage,
                     cause |-> cause, carried |-> pollStart]

\* raise PartialBridgeResult("Bridge pipeline failed", tx_result=tx_result) from e
PollRaises(stage, cause) ==
    /\ pc' = "idle"
    /\ lastOutcome' = "raised"
    /\ lastError' = [kind |-> "PartialBridgeResult", stage |-> stage,
                     cause |-> cause, carried |-> tx_result]

\* confirm_source_tx: wait_for_tx_finality returns the receipt of the source chain
ConfirmSourceTx ==
    /\ pc = "poll_source"
    /\ srcChain.present
    /\ pollStages' = pollStages \cup {"source"}
    /\ tx_result' = [tx_result EXCEPT !.source_receipt = srcChain]
    /\ pc' = "poll_event"
    /\ UNCHANGED <<pollCount, pollStart, targetScans, lastOutcome, lastError>>
    /\ UNCHANGED pollUnchanged
    /\ UNCHANGED otherThanBridge

\* a poll that goes on to the target stage although the source wait failed
ConfirmSourceTxSwallowed ==
    /\ pc = "poll_source"
    /\ pollStages' = pollStages \cup {"source"}
    /\ pc' = "poll_event"
    /\ UNCHANGED <<tx_result, pollCount, pollStart, targetScans, lastOutcome, lastError>>
    /\ UNCHANGED pollUnchanged
    /\ UNCHANGED otherThanBridge

\* confirm_source_tx: wait_for_tx_finality raises (timeout kinds, RPC failure)
ConfirmSourceTxRaises ==
    /\ pc = "poll_source"
    /\ pollStages' = pollStages \cup {"source"}
    /\ \E cause \in FinalityErrors : PollRaises("source", cause)
    /\ UNCHANGED <<tx_result, pollCount, pollStart, targetScans>>
    /\ UNCHANGED pollUnchanged
    /\ UNCHANGED otherThanBridge

\* position from the end of receipt.logs: logs[-1] for LayerZero, logs[-2] for Socket
SourceLogPosition(b) == IF b = LAYERZERO THEN 1 ELSE 2

\* context.source_event: OFTSent for LayerZero, MessageOutbound for Socket
SourceEventKind(b) == IF b = LAYERZERO THEN "OFTSent" ELSE "MessageOutbound"

\* process_log(logs[-k]) succeeds: the index exists and the log has the event's shape
CanDecode(b, logs) ==
    /\ Len(logs) >= SourceLogPosition(b)
    /\ logs[Len(logs) - SourceLogPosition(b) + 1].kind = SourceEventKind(b)

\* source_event["args"]["guid"] / ["msgId"]
DecodedId(b, logs) == logs[Len(logs) - SourceLogPosition(b) + 1].id

\* wait_for_target_event, first half: the correlation id is read from the source receipt
FetchEventId ==
    /\ pc = "poll_event"
    /\ CanDecode(bridge, tx_result.source_receipt.logs)
    /\ tx_result' = [tx_result EXCEPT
                       !.event_id = DecodedId(bridge, tx_result.source_receipt.logs)]
    /\ pc' = "poll_scan"
    /\ UNCHANGED <<pollCount, pollStages, pollStart, targetScans, lastOutcome, lastError>>
    /\ UNCHANGED pollUnchanged
    /\ UNCHANGED otherThanBridge

\* a fetcher that asks the target chain for logs before it decodes the source log
FetchEventIdRaisesAfterScan ==
    /\ pc = "poll_event"
    /\ ~CanDecode(bridge, tx_result.source_receipt.logs)
    /\ pollStages' = pollStages \cup {"event"}
    /\ targetScans' = targetScans + 1
    /\ PollRaises("event", "BridgeEventParseError")
    /\ UNCHANGED <<tx_result, pollCount, pollStart>>
    /\ UNCHANGED pollUnchanged
    /\ UNCHANGED otherThanBridge

\* wait_for_target_event, first half: BridgeEventParseError
FetchEventIdRaises ==
    /\ pc = "poll_event"
    /\ ~CanDecode(bridge, tx_result.source_receipt.logs)
    /\ PollRaises("event", "BridgeEventParseError")
    /\ UNCHANGED <<tx_result, pollCount, pollStages, pollStart, targetScans>>
    /\ UNCHANGED pollUnchanged
    /\ UNCHANGED otherThanBridge

\* a scan that takes any completion event in range, whatever its id
MatchingEventsAnyId(id, from_block) ==
    { e \in targetEvents : e.block >= from_block /\ e.block <= targetHead }

\* logs of the target event with the wanted id from from_block up to the head
MatchingEvents(id, from_block) ==
    { e \in targetEvents : e.id = id /\ e.block >= from_block /\ e.block <= targetHead }

EarliestEvent(evs) == CHOOSE e \in evs : \A f \in evs : e.block <= f.block

\* wait_for_target_event, second half: wait_for_event returns the first matching log
\* and tx_result.target_tx = TxResult(tx_hash=...) replaces the target leg
WaitForTargetEvent ==
    /\ pc = "poll_scan"
    /\ MatchingEvents(tx_result.event_id, tx_result.target_from_block) # {}
    /\ pollStages' = pollStages \cup {"event"}
    /\ targetScans' = targetScans + 1
    /\ LET e == EarliestEvent(MatchingEvents(tx_result.event_id,
                                             tx_result.target_from_block))
       IN tx_result' = [tx_result EXCEPT !.target_hash = e.hash,
                                         !.target_receipt = NoReceipt]
    /\ pc' = "poll_target"
    /\ UNCHANGED <<pollCount, pollStart, lastOutcome, lastError>>
    /\ UNCHANGED pollUnchanged
    /\ UNCHANGED otherThanBridge

\* wait_for_target_event, second half: wait_for_event raises TimeoutError
WaitForTargetEventRaises ==
    /\ pc = "poll_scan"
    /\ pollStages' = pollStages \cup {"event"}
    /\ targetScans' = targetScans + 1
    /\ PollRaises("event", "TimeoutError")
    /\ UNCHANGED <<tx_result, pollCount, pollStart>>
    /\ UNCHANGED pollUnchanged
    /\ UNCHANGED otherThanBridge

\* confirm_target_tx: wait_for_tx_finality returns the receipt of the transaction
\* that emitted the event, and poll_bridge_progress returns tx_result
ConfirmTargetTx ==
    /\ pc = "poll_target"
    /\ pollStages' = pollStages \cup {"target"}
    /\ tx_result' = [tx_result EXCEPT !.target_receipt = MkReceipt(SUCCESS, <<>>)]
    /\ pc' = "idle"
    /\ lastOutcome' = "returned"
    /\ UNCHANGED <<pollCount, pollStart, targetScans, lastError>>
    /\ UNCHANGED pollUnchanged
    /\ UNCHANGED otherThanBridge

\* confirm_target_tx: wait_for_tx_finality raises
ConfirmTargetTxRaises ==
    /\ pc = "poll_target"
    /\ pollStages' = pollStages \cup {"target"}
    /\ \E cause \in FinalityErrors : PollRaises("target", cause)
    /\ UNCHANGED <<tx_result, pollCount, pollStart, targetScans>>
    /\ UNCHANGED pollUnchanged
    /\ UNCHANGED otherThanBridge

IdleFinality ==
    /\ fpc = "off"
    /\ f_receipt = [present |-> FALSE, blockNumber |-> 0, seenAt |-> 0]
    /\ f_block_number = [bound |-> FALSE, value |-> 0, readAt |-> 0]
    /\ f_tx = "none"
    /\ f_now = 0
    /\ f_iter = 0
    /\ f_outcome = "none"
    /\ f_everReceipt = FALSE

\* target_tx = None
NoTargetTx == [exists |-> FALSE, receipt |-> NoReceipt]

StatusUnread == [read |-> FALSE, source |-> PENDING, target |-> PENDING, value |-> PENDING]

TxStatusUnread == [read |-> FALSE, receipt |-> NoReceipt, value |-> PENDING]

IdleModels ==
    /\ m_source_receipt = NoReceipt
    /\ m_target_tx = NoTargetTx
    /\ m_status = StatusUnread
    /\ m_tx_status = TxStatusUnread

(***************************************************************************)
(* The address registry (DeriveAddresses) and the requests made of it.     *)
(***************************************************************************)
RemoteChain == "ETH"
DeriveChain == "DERIVE"
Chains == {RemoteChain, DeriveChain}
DRV == "DRV"
USDC == "USDC"
Currencies == {DRV, USDC}
\* DRV is not a key of the registry
RegistryCurrencies == {USDC}
DEPOSIT == "deposit"
WITHDRAW == "withdraw"
Directions == {DEPOSIT, WITHDRAW}

\* chains: dict[ChainID, dict[Currency, TokenData]], TokenData.connectors: dict[ChainID, ...]
WellFormedRegistry(r) ==
    /\ \A t \in r.tokens : t[1] \in r.chains
    /\ \A k \in r.connectors : <<k[1], k[2]>> \in r.tokens /\ k[3] # k[1]

Registries ==
    { r \in [chains : SUBSET Chains,
             tokens : SUBSET (Chains \X RegistryCurrencies),
             connectors : SUBSET (Chains \X RegistryCurrencies \X Chains)] :
        WellFormedRegistry(r) }

FullRegistry ==
    [chains |-> Chains,
     tokens |-> Chains \X RegistryCurrencies,
     connectors |-> {<<RemoteChain, USDC, DeriveChain>>, <<DeriveChain, USDC, RemoteChain>>}]

\* _resolve_socket_route has not been called
NoRoute == [called |-> FALSE, kind |-> "none", side |-> "none"]

NoContextCall ==
    [called |-> FALSE, direction |-> DEPOSIT, bridge_type |-> SOCKET, currency |-> USDC,
     kind |-> "none", bridge |-> "none"]

IdlePrepare ==
    /\ p_pc = "idle"
    /\ p_op = DEPOSIT
    /\ p_currency = USDC
    /\ p_amount = 0
    /\ p_registry = FullRegistry
    /\ p_balance = 0
    /\ p_allowance = 0
    /\ p_fee = 0
    /\ p_calls = 0
    /\ p_allowanceCalls = <<>>
    /\ p_sent = 0
    /\ p_balanceOk = FALSE
    /\ p_built = FALSE
    /\ p_signed = FALSE
    /\ p_outcome = "none"
    /\ p_bridge = "none"
    /\ p_resultBridge = "none"
    /\ p_ctx = NoContextCall
    /\ p_route = NoRoute

(***************************************************************************)
(* The provider pool of the rotating middleware and its calling threads.   *)
(***************************************************************************)
Providers == {"p1", "p2"}
Threads == {"t1", "t2"}

\* EndpointState.__init__: backoff = 0.0, next_available = 0.0
FreshEndpoint == [backoff |-> 0, next_available |-> 0]

\* a thread that is not inside rotating_backoff
IdleThread ==
    [pc |-> "idle", now |-> 0, held |-> "none", minAtPop |-> 0, sentTo |-> {},
     outcome |-> "none", raisedNext |-> 0, raisedChanged |-> FALSE,
     raisedAllInBackoff |-> FALSE]

IdleRotating ==
    /\ r_clock = 0
    /\ r_pool = Providers
    /\ r_heap = Providers
    /\ r_state = [p \in Providers |-> FreshEndpoint]
    /\ r_th = [t \in Threads |-> IdleThread]

\* no build in progress
NoTx ==
    [present |-> FALSE, gas |-> 0, fee |-> 0, balance |-> 0,
     checked |-> FALSE, built |-> FALSE]

\* no exception reached the caller
NoException == [kind |-> "none", cause |-> "none", at |-> "none"]

IdleTx ==
    /\ x_pc = "idle"
    /\ x_attempt = 0
    /\ x_delay = 0
    /\ x_native = 0
    /\ x_value = 0
    /\ x_tx = NoTx
    /\ x_raised = <<>>
    /\ x_simCalls = 0
    /\ x_signed = FALSE
    /\ x_broadcast = FALSE
    /\ x_result = FALSE
    /\ x_error = NoException

IdleGas ==
    /\ g_pc = "idle"
    /\ g_entry = "none"
    /\ g_native = 0
    /\ g_start = 0
    /\ g_mainnet = 0
    /\ g_cost = 0
    /\ g_funding = "none"
    /\ g_arrived = FALSE
    /\ g_built = FALSE
    /\ g_outcome = "none"

\* None, and the "latest" block tag
NONE == 0 - 1
LATEST == 0 - 2

IdleEvents ==
    /\ e_pc = "idle"
    /\ e_consumer = "none"
    /\ e_clock = 0
    /\ e_deadline = NONE
    /\ e_head = 0
    /\ e_matches = {}
    /\ e_from = 0
    /\ e_ceiling = NONE
    /\ e_mbr = 1
    /\ e_start = 0
    /\ e_cursor = 0
    /\ e_requests = <<>>
    /\ e_attempt = 0
    /\ e_yielded = <<>>
    /\ e_examined = {}
    /\ e_outcome = "none"

\* a thread that is not inside rotating_backoff
IdleCaller == [pc |-> "idle", state |-> "none", held |-> "none",
               after |-> "none", outcome |-> "none"]

IdleLock ==
    /\ l_lock = "free"
    /\ l_pool = {}
    /\ l_heap = [p \in {"p1", "p2"} |-> 0]
    /\ l_th = [t \in {"t1", "t2"} |-> IdleCaller]

IdleRetry ==
    /\ rt_pc = "idle"
    /\ rt_attempts = 0
    /\ rt_initial_delay = 0
    /\ rt_exceptions = {}
    /\ rt_attempt = 0
    /\ rt_delay = 0
    /\ rt_calls = 0
    /\ rt_slept = <<>>
    /\ rt_raised = <<>>
    /\ rt_result = "none"

IdleFees ==
    /\ fee_pc = "idle"
    /\ fee_percentiles = 0
    /\ fee_rewards = <<>>
    /\ fee_base_fees = <<>>
    /\ fee_buffer = <<1, 1>>
    /\ fee_out = <<>>

\* a Channel object before open()
ClosedChannel == [pc |-> "idle", open |-> FALSE, req |-> 0]

NoMessage == [kind |-> "none", orphan |-> FALSE, to |-> {}, failed |-> {}]

IdleWs ==
    /\ ws_key = FALSE
    /\ ws_set = {}
    /\ ws_server = FALSE
    /\ ws_conn = "closed"
    /\ ws_loop = "ended"
    /\ ws_wire = <<>>
    /\ ws_inbox = <<>>
    /\ ws_co = [c \in {"c1", "c2"} |-> ClosedChannel]
    /\ ws_last = NoMessage
    /\ ws_published = 0
    /\ ws_ops = 0

IdleMore == IdleRetry /\ IdleFees /\ IdleWs

IdleExtra == IdleTx /\ IdleGas /\ IdleEvents /\ IdleLock /\ IdleMore

Init == InitBridge /\ IdleFinality /\ IdleModels /\ IdlePrepare /\ IdleRotating /\ IdleExtra

Next ==
    \/ BuildTx
    \/ BuildTxFails
    \/ SignTx
    \/ SubmitReadHeight
    \/ SubmitReadHeightFails
    \/ SubmitSend
    \/ SubmitSendFails
    \/ SubmitBuildResult
    \/ SourceMine
    \/ RelayDeliver
    \/ ForeignEvent
    \/ TargetAdvance
    \/ PollStart
    \/ ConfirmSourceTx
    \/ ConfirmSourceTxRaises
    \/ FetchEventId
    \/ FetchEventIdRaises
    \/ WaitForTargetEvent
    \/ WaitForTargetEventRaises
    \/ ConfirmTargetTx
    \/ ConfirmTargetTxRaises

Spec == Init /\ [][Next]_vars

(***************************************************************************)
(* Properties of the bridge orchestrator (checked under Spec).             *)
(***************************************************************************)
PollEnded == pc = "idle" /\ pollCount > 0

\* C2: when the source receipt has status FAILED, poll_bridge_progress returns
\* (does not raise) a result whose status is FAILED and no target-chain log
\* scan is ever issued for the operation.
C2_FailedSourceStops ==
    (PollEnded /\ tx_result.source_receipt.present
               /\ tx_result.source_receipt.status = FAILED)
        => /\ lastOutcome = "returned"
           /\ Status(tx_result) = FAILED
           /\ targetScans = 0

\* C3: after one submit and any number of polls, succeeding or failing, the
\* signed source transaction has been broadcast exactly once.
C3_BroadcastOnce ==
    /\ broadcasts <= 1
    /\ tx_result.exists => broadcasts = 1

C3_Witness ==
    /\ pollCount >= 2
    /\ PollEnded
    /\ lastOutcome = "returned"
    /\ broadcasts = 1

\* C4: a poll performs only the stages that were incomplete when it began: the
\* source wait only without a source receipt, event discovery only with a
\* successful source leg and no target hash, the target wait only without a
\* target receipt; on a complete result it performs nothing and returns the
\* result unchanged.
C4_OnlyIncompleteStages ==
    /\ "source" \in pollStages => ~pollStart.source_receipt.present
    /\ "event" \in pollStages =>
           /\ pollStart.target_hash = 0
           /\ TxResultStatus(tx_result.source_receipt) = SUCCESS
    /\ "target" \in pollStages => ~pollStart.target_receipt.present
    /\ AllStagesComplete(pollStart) =>
           /\ pollStages = {}
           /\ lastOutcome = "returned" => tx_result = pollStart

\* C5: the target height is read before the broadcast and recorded as
\* target_from_block, so no event caused by the submitted transaction lies
\* below target_from_block; when the read fails nothing is broadcast.
C5_FromBlockBeforeEvents ==
    /\ tx_result.exists =>
           /\ tx_result.target_from_block = heightRead
           /\ \A e \in targetEvents :
                  e.id = TrueId => tx_result.target_from_block <= e.block
    /\ pc \in {"submit_send", "submit_build"} => heightRead <= targetHead
    /\ heightFailed => broadcasts = 0

C5_Witness ==
    /\ tx_result.exists
    /\ \E e \in targetEvents : e.id = TrueId /\ e.block > tx_result.target_from_block

\* C6: the stages occur in pipeline order: signing before submitting, event
\* correlation only after the source receipt is final, target finality tracking
\* only after a target event was observed; a poll returns normally only with
\* both receipts attached.
C6_PipelineOrder ==
    /\ broadcasts > 0 => signed
    /\ pc \in {"poll_event", "poll_scan"} => tx_result.source_receipt.present
    /\ "event" \in pollStages => "source" \in pollStages
    /\ pc = "poll_target" => tx_result.target_hash # 0
    /\ "target" \in pollStages => "event" \in pollStages
    /\ lastOutcome = "returned" =>
           /\ tx_result.source_receipt.present
           /\ tx_result.target_receipt.present

C6_Witness ==
    /\ PollEnded
    /\ lastOutcome = "returned"
    /\ pollStages = {"source", "event", "target"}
    /\ signed

\* the log the protocol expects in the source receipt: the last one for
\* LayerZero, the second-to-last one for Socket
ExpectedLogPresent(b, logs) ==
    IF b = LAYERZERO
    THEN Len(logs) >= 1 /\ logs[Len(logs)].kind = "OFTSent"
    ELSE Len(logs) >= 2 /\ logs[Len(logs) - 1].kind = "MessageOutbound"

ExpectedLogId(b, logs) ==
    IF b = LAYERZERO THEN logs[Len(logs)].id ELSE logs[Len(logs) - 1].id

\* C11: a recorded target hash is the hash of a target-chain completion event
\* in a block >= target_from_block whose id equals the id of the expected
\* source log (guid of the last log for LayerZero, msgId of the second-to-last
\* for Socket); an event with another id is never accepted.
C11_TargetHashCorrelated ==
    tx_result.target_hash # 0 =>
        /\ ExpectedLogPresent(bridge, tx_result.source_receipt.logs)
        /\ tx_result.event_id = ExpectedLogId(bridge, tx_result.source_receipt.logs)
        /\ \E e \in targetEvents :
              /\ e.hash = tx_result.target_hash
              /\ e.block >= tx_result.target_from_block
        /\ \A e \in targetEvents :
              e.hash = tx_result.target_hash => e.id = tx_result.event_id

C11_Witness ==
    /\ tx_result.target_hash # 0
    /\ \E e \in targetEvents, f \in targetEvents :
          /\ e.hash = tx_result.target_hash
          /\ f.id = OtherId
          /\ f.block >= tx_result.target_from_block
          /\ f.block < e.block

\* C12: when the expected source log is missing or has another shape, the
\* stage fails with BridgeEventParseError before any target-chain log request,
\* and event_id and target_tx stay unset.
C12_ParseErrorBeforeScan ==
    /\ pc = "poll_scan" => ExpectedLogPresent(bridge, tx_result.source_receipt.logs)
    /\ (lastOutcome = "raised" /\ lastError.cause = "BridgeEventParseError") =>
           /\ ~ExpectedLogPresent(bridge, tx_result.source_receipt.logs)
           /\ "event" \notin pollStages
           /\ targetScans = 0
           /\ tx_result.event_id = NoId
           /\ tx_result.target_hash = 0

C12_Witness ==
    /\ lastOutcome = "raised"
    /\ lastError.cause = "BridgeEventParseError"
    /\ tx_result.source_receipt.status = SUCCESS
    /\ Len(tx_result.source_receipt.logs) >= 2

\* C13: a failing poll raises PartialBridgeResult whose cause is the original
\* error and which carries the same BridgeTxResult, with the source receipt,
\* event id and target hash obtained before the failure still attached; a poll
\* that returns has completed every stage.
C13_FailureCarriesProgress ==
    /\ lastOutcome = "raised" =>
           /\ lastError.kind = "PartialBridgeResult"
           /\ lastError.cause \in FinalityErrors \cup {"BridgeEventParseError", "TimeoutError"}
           /\ lastError.carried = tx_result
           /\ lastError.stage \in {"event", "target"} =>
                  lastError.carried.source_receipt.present
           /\ lastError.cause = "TimeoutError" => lastError.carried.event_id # NoId
           /\ lastError.stage = "target" =>
                  /\ lastError.carried.event_id # NoId
                  /\ lastError.carried.target_hash # 0
           /\ pollStart.source_receipt.present => lastError.carried.source_receipt.present
           /\ pollStart.event_id # NoId => lastError.carried.event_id # NoId
           /\ pollStart.target_hash # 0 => lastError.carried.target_hash # 0
    /\ lastOutcome = "returned" =>
           /\ lastError = NoError
           /\ pollStages = {"source", "event", "target"}

C13_Witness ==
    /\ lastOutcome = "raised"
    /\ lastError.stage = "target"
    /\ lastError.carried.target_hash # 0
    /\ lastError.carried.source_receipt.present

(***************************************************************************)
(* wait_for_tx_finality, one step of its polling loop at a time.           *)
(* Time is counted in ticks since start_time and saturates one tick past   *)
(* the timeout, where the deadline test no longer changes.                 *)
(***************************************************************************)
otherThanFinality == <<bridgeVars, modelVars, prepVars, rotVars, extraVars>>

\* receipt = None
NoFReceipt == [present |-> FALSE, blockNumber |-> 0, seenAt |-> 0]

\* block_number before the first successful read of w3.eth.block_number
UnboundBlockNumber == [bound |-> FALSE, value |-> 0, readAt |-> 0]

InitFinality ==
    /\ fpc = "get_receipt"
    /\ f_receipt = NoFReceipt
    /\ f_block_number = UnboundBlockNumber
    /\ f_tx = "none"
    /\ f_now = 0
    /\ f_iter = 1
    /\ f_outcome = "none"
    /\ f_everReceipt = FALSE

\* time.monotonic() - start_time after d more ticks
Advance(now, d) == IF now + d > Timeout + 1 THEN Timeout + 1 ELSE now + d

\* what get_transaction_receipt yields in poll i: an exception, or the receipt
\* in whatever block the transaction currently sits (reorgs move it)
ReceiptReads(i) ==
    {NoFReceipt} \cup
    { [present |-> TRUE, blockNumber |-> b, seenAt |-> i] : b \in 1..MaxBlock }

\* a wait that keeps the receipt of an earlier poll when the read fails
ReceiptAfterReadCached(old, read) == IF read.present THEN read ELSE old

\* the try/except around get_transaction_receipt: the local is reassigned every poll
ReceiptAfterRead(old, read) == read

\* receipt = AttributeDict(w3.eth.get_transaction_receipt(tx_hash)) / except: None
FinGetReceipt ==
    /\ fpc = "get_receipt"
    /\ \E read \in ReceiptReads(f_iter), d \in 0..1 :
          /\ f_receipt' = ReceiptAfterRead(f_receipt, read)
          /\ f_everReceipt' = (f_everReceipt \/ read.present)
          /\ f_now' = Advance(f_now, d)
    /\ fpc' = "check_finality"
    /\ UNCHANGED <<f_block_number, f_tx, f_iter, f_outcome>>
    /\ UNCHANGED otherThanFinality

\* receipt is None: the conjunction short-circuits, block_number is not read
FinSkipBlockNumber ==
    /\ fpc = "check_finality"
    /\ ~f_receipt.present
    /\ fpc' = "check_timeout"
    /\ UNCHANGED <<f_receipt, f_block_number, f_tx, f_now, f_iter, f_outcome, f_everReceipt>>
    /\ UNCHANGED otherThanFinality

\* (block_number := w3.eth.block_number) >= receipt.blockNumber + finality_blocks
IsFinal(head, receipt) == head >= receipt.blockNumber + FinalityBlocks

\* the head is read; the receipt is returned when it is deep enough
FinReadBlockNumber ==
    /\ fpc = "check_finality"
    /\ f_receipt.present
    /\ \E n \in 0..MaxBlock, d \in 0..1 :
          /\ f_block_number' = [bound |-> TRUE, value |-> n, readAt |-> f_iter]
          /\ f_now' = Advance(f_now, d)
          /\ IF IsFinal(n, f_receipt)
             THEN fpc' = "done" /\ f_outcome' = "returned"
             ELSE fpc' = "check_timeout" /\ f_outcome' = f_outcome
    /\ UNCHANGED <<f_receipt, f_tx, f_iter, f_everReceipt>>
    /\ UNCHANGED otherThanFinality

\* w3.eth.block_number raises: logged, block_number keeps its previous binding
FinBlockNumberRaises ==
    /\ fpc = "check_finality"
    /\ f_receipt.present
    /\ \E d \in 0..1 : f_now' = Advance(f_now, d)
    /\ fpc' = "check_timeout"
    /\ UNCHANGED <<f_receipt, f_block_number, f_tx, f_iter, f_outcome, f_everReceipt>>
    /\ UNCHANGED otherThanFinality

\* time.monotonic() - start_time > timeout
TimedOut(now) == now > Timeout

\* raise FinalityTimeout(...): the message formats block_number, which is an
\* unbound local when no read of the head has succeeded in this call
FinTimeoutWithReceipt ==
    /\ fpc = "check_timeout"
    /\ TimedOut(f_now)
    /\ f_receipt.present
    /\ f_outcome' = IF f_block_number.bound THEN "FinalityTimeout" ELSE "UnboundLocalError"
    /\ fpc' = "done"
    /\ UNCHANGED <<f_receipt, f_block_number, f_tx, f_now, f_iter, f_everReceipt>>
    /\ UNCHANGED otherThanFinality

\* what the get_transaction probe yields: the transaction without a block
\* number, with one, TransactionNotFound, or any other exception
ProbeResults == {"pending", "mined", "not_found", "rpc_error"}

\* a classification that reports a pending transaction as dropped
ProbeOutcomeNoPending(t) ==
    IF t = "mined" THEN "FinalityTimeout" ELSE "TransactionDropped"

\* tx = None on any exception; pending when tx.blockNumber is None
ProbeOutcome(t) ==
    IF t = "pending" THEN "TxPendingTimeout"
    ELSE IF t = "mined" THEN "FinalityTimeout"
    ELSE "TransactionDropped"

\* timeout without a receipt in this poll: a single get_transaction probe decides
FinTimeoutProbe ==
    /\ fpc = "check_timeout"
    /\ TimedOut(f_now)
    /\ ~f_receipt.present
    /\ \E t \in ProbeResults :
          /\ f_tx' = t
          /\ f_outcome' = ProbeOutcome(t)
    /\ fpc' = "done"
    /\ UNCHANGED <<f_receipt, f_block_number, f_now, f_iter, f_everReceipt>>
    /\ UNCHANGED otherThanFinality

\* time.sleep(poll_interval) and the next poll
FinSleep ==
    /\ fpc = "check_timeout"
    /\ ~TimedOut(f_now)
    /\ f_now' = Advance(f_now, PollInterval)
    /\ f_iter' = f_iter + 1
    /\ fpc' = "get_receipt"
    /\ UNCHANGED <<f_receipt, f_block_number, f_tx, f_outcome, f_everReceipt>>
    /\ UNCHANGED otherThanFinality

InitFin == IdleBridge /\ InitFinality /\ IdleModels /\ IdlePrepare /\ IdleRotating /\ IdleExtra

NextFin ==
    \/ FinGetReceipt
    \/ FinSkipBlockNumber
    \/ FinReadBlockNumber
    \/ FinBlockNumberRaises
    \/ FinTimeoutWithReceipt
    \/ FinTimeoutProbe
    \/ FinSleep

SpecFinality == InitFin /\ [][NextFin]_vars

(***************************************************************************)
(* Properties of wait_for_tx_finality (checked under SpecFinality).        *)
(***************************************************************************)
FinRaised == fpc = "done" /\ f_outcome # "returned"

\* C7: a receipt is returned only if the head read in that same poll satisfies
\* current_block >= receipt.blockNumber + finality_blocks, the receipt itself
\* having been read in that poll too.
C7_ReturnNeedsFreshFinality ==
    f_outcome = "returned" =>
        /\ f_receipt.present
        /\ f_receipt.seenAt = f_iter
        /\ f_block_number.bound
        /\ f_block_number.readAt = f_iter
        /\ f_block_number.value >= f_receipt.blockNumber + FinalityBlocks

C7_Witness ==
    /\ f_outcome = "returned"
    /\ f_iter >= 2
    /\ f_block_number.value = f_receipt.blockNumber + FinalityBlocks

\* C8: a timeout after a receipt was observed in at least one poll of the wait
\* (not necessarily the last) raises FinalityTimeout.
C8_SeenReceiptGivesFinalityTimeout ==
    (FinRaised /\ f_everReceipt) => f_outcome = "FinalityTimeout"

C10_OnlyDocumentedOutcomes ==
    fpc = "done" =>
        f_outcome \in {"returned", "FinalityTimeout", "TxPendingTimeout", "TransactionDropped"}

(***************************************************************************)
(* The TxResult / BridgeTxResult dataclasses: fields are assignable        *)
(* (validate_assignment) and status is a property derived on every read.   *)
(***************************************************************************)
otherThanModels == <<bridgeVars, finVars, prepVars, rotVars, extraVars>>

\* receipts a leg may carry: none, a revert, or a success
ModelReceipts ==
    {NoReceipt, MkReceipt(FAILED, <<>>)} \cup
    { MkReceipt(SUCCESS, lg) : lg \in SourceLogChoices }

\* target legs: None, or a TxResult with or without a receipt
ModelTargets ==
    {NoTargetTx} \cup
    { [exists |-> TRUE, receipt |-> r] :
         r \in {NoReceipt, MkReceipt(FAILED, <<>>), MkReceipt(SUCCESS, <<>>)} }

InitModelsVars ==
    /\ m_source_receipt \in ModelReceipts
    /\ m_target_tx \in ModelTargets
    /\ m_status = StatusUnread
    /\ m_tx_status = TxStatusUnread

\* status of the target leg, a missing leg counting as PENDING
TargetLegStatus(t) == IF t.exists THEN TxResultStatus(t.receipt) ELSE PENDING

\* tx_result.source_tx.tx_receipt = r
AssignSourceReceipt ==
    /\ \E r \in ModelReceipts : m_source_receipt' = r
    /\ UNCHANGED <<m_target_tx, m_status, m_tx_status>>
    /\ UNCHANGED otherThanModels

\* tx_result.target_tx = TxResult(...) or None
AssignTargetTx ==
    /\ \E t \in ModelTargets : m_target_tx' = t
    /\ UNCHANGED <<m_source_receipt, m_status, m_tx_status>>
    /\ UNCHANGED otherThanModels

\* tx_result.status
ReadStatus ==
    /\ m_status' = [read |-> TRUE,
                    source |-> TxResultStatus(m_source_receipt),
                    target |-> TargetLegStatus(m_target_tx),
                    value |-> BridgeTxResultStatus(m_source_receipt, m_target_tx.exists,
                                                   m_target_tx.receipt)]
    /\ UNCHANGED <<m_source_receipt, m_target_tx, m_tx_status>>
    /\ UNCHANGED otherThanModels

\* tx_result.source_tx.status
ReadTxStatus ==
    /\ m_tx_status' = [read |-> TRUE, receipt |-> m_source_receipt,
                       value |-> TxResultStatus(m_source_receipt)]
    /\ UNCHANGED <<m_source_receipt, m_target_tx, m_status>>
    /\ UNCHANGED otherThanModels

InitModels == IdleBridge /\ IdleFinality /\ InitModelsVars /\ IdlePrepare /\ IdleRotating /\ IdleExtra

NextModels ==
    \/ AssignSourceReceipt
    \/ AssignTargetTx
    \/ ReadStatus
    \/ ReadTxStatus

SpecModels == InitModels /\ [][NextModels]_vars

(***************************************************************************)
(* Properties of the dataclasses (checked under SpecModels).               *)
(***************************************************************************)
\* C1: for every pair of leg statuses, BridgeTxResult.status is FAILED if either
\* leg is FAILED, otherwise PENDING if either leg is PENDING, otherwise SUCCESS.
C1_StatusLattice ==
    m_status.read =>
        m_status.value =
            IF FAILED \in {m_status.source, m_status.target} THEN FAILED
            ELSE IF PENDING \in {m_status.source, m_status.target} THEN PENDING
            ELSE SUCCESS

\* C29: the value read from TxResult.status depends on the attached receipt
\* only: PENDING without a receipt, SUCCESS exactly when the receipt's status
\* code is 1, FAILED when it is 0; a second read with the same receipt gives
\* the same value.
C29_StatusFromReceiptOnly ==
    /\ [](m_tx_status.read =>
             /\ ~m_tx_status.receipt.present => m_tx_status.value = PENDING
             /\ m_tx_status.value = SUCCESS
                    <=> (m_tx_status.receipt.present /\ m_tx_status.receipt.status = 1)
             /\ (m_tx_status.receipt.present /\ m_tx_status.receipt.status = 0)
                    => m_tx_status.value = FAILED)
    /\ [][(m_tx_status.read /\ m_tx_status'.read
              /\ m_tx_status'.receipt = m_tx_status.receipt)
             => m_tx_status'.value = m_tx_status.value]_vars

C29_Witness ==
    /\ m_tx_status.read
    /\ m_tx_status.receipt.present
    /\ m_tx_status.receipt.status = 1
    /\ m_tx_status.value = SUCCESS
    /\ m_source_receipt = m_tx_status.receipt

(***************************************************************************)
(* prepare_deposit / prepare_withdrawal: route resolution, protocol         *)
(* choice, balance and allowance checks, fee check, build and sign.         *)
(***************************************************************************)
otherThanPrepare == <<bridgeVars, finVars, modelVars, rotVars, extraVars>>

MaxAmount == 2
MaxCalls == 2

Amounts == 0..MaxAmount

\* result of _resolve_socket_route for the chains of one direction
RouteResult(kind, side) == [called |-> TRUE, kind |-> kind, side |-> side]

SourceChainOf(direction) == IF direction = DEPOSIT THEN RemoteChain ELSE DeriveChain

TargetChainOf(direction) == IF direction = DEPOSIT THEN DeriveChain ELSE RemoteChain

\* chains[src_chain] and chains[tgt_chain] index a plain dict; .get(currency)
\* and the connector membership tests raise BridgeRouteError
ResolveSocketRoute(reg, direction, currency) ==
    LET src == SourceChainOf(direction)
        tgt == TargetChainOf(direction)
    IN  IF src \notin reg.chains THEN RouteResult("KeyError", "none")
        ELSE IF <<src, currency>> \notin reg.tokens
            THEN RouteResult("BridgeRouteError", "source")
        ELSE IF tgt \notin reg.chains THEN RouteResult("KeyError", "none")
        ELSE IF <<tgt, currency>> \notin reg.tokens
            THEN RouteResult("BridgeRouteError", "target")
        ELSE IF <<src, currency, tgt>> \notin reg.connectors
            THEN RouteResult("BridgeRouteError", "source")
        ELSE IF <<tgt, currency, src>> \notin reg.connectors
            THEN RouteResult("BridgeRouteError", "target")
        ELSE RouteResult("ok", "none")

ContextResult(kind, b) == [kind |-> kind, bridge |-> b]

\* a _make_bridge_context that picks the protocol from the currency alone
MakeBridgeContextCoerced(reg, direction, bridge_type, currency) ==
    IF currency = DRV THEN ContextResult("context", LAYERZERO)
    ELSE IF <<SourceChainOf(direction), currency>> \in reg.tokens
        THEN ContextResult("context", SOCKET)
    ELSE ContextResult("KeyError", "none")

\* _make_bridge_context: LAYERZERO with DRV, SOCKET with any other currency
\* (whose token data is indexed in the registry), anything else is rejected
MakeBridgeContext(reg, direction, bridge_type, currency) ==
    IF bridge_type = LAYERZERO /\ currency = DRV
        THEN ContextResult("context", LAYERZERO)
    ELSE IF bridge_type = SOCKET /\ currency # DRV
        THEN IF <<SourceChainOf(direction), currency>> \in reg.tokens
                THEN ContextResult("context", SOCKET)
                ELSE ContextResult("KeyError", "none")
    ELSE ContextResult("BridgeRouteError", "none")

\* PreparedBridgeTx.bridge always SOCKET
PreparedBridgeSocketOnly(currency) == SOCKET

\* _prepare_tx: bridge = LAYERZERO if currency == DRV else SOCKET
PreparedBridge(currency) == IF currency = DRV THEN LAYERZERO ELSE SOCKET

\* approve whenever amount >= allowance
NeedsApprovalInclusive(amount, allowance) == amount >= allowance

\* ensure_allowance: if amount > allowance
NeedsApproval(amount, allowance) == amount > allowance

\* increase_allowance that accepts any confirmation
ApproveConfirmedAny(status) == TRUE

\* increase_allowance: tx_result.status != SUCCESS raises
ApproveConfirmed(status) == status = SUCCESS

requestVars == <<p_op, p_currency, p_amount, p_registry, p_balance, p_fee>>

InitPrepareVars ==
    /\ p_pc = "idle"
    /\ p_op \in Directions
    /\ p_currency \in Currencies
    /\ p_amount \in Amounts
    /\ p_registry \in Registries
    /\ p_balance \in Amounts
    /\ p_allowance \in Amounts
    /\ p_fee \in Amounts
    /\ p_calls = 0
    /\ p_allowanceCalls = <<>>
    /\ p_sent = 0
    /\ p_balanceOk = FALSE
    /\ p_built = FALSE
    /\ p_signed = FALSE
    /\ p_outcome = "none"
    /\ p_bridge = "none"
    /\ p_resultBridge = "none"
    /\ p_ctx = NoContextCall
    /\ p_route = NoRoute

\* the running call raises err
PrepareRaises(err) ==
    /\ p_pc' = "idle"
    /\ p_outcome' = err

\* prepare_deposit(amount, currency) / prepare_withdrawal(amount, currency) is called
StartPrepare ==
    /\ p_pc = "idle"
    /\ p_calls < MaxCalls
    /\ p_calls' = p_calls + 1
    /\ p_pc' = "route"
    /\ p_sent' = 0
    /\ p_balanceOk' = FALSE
    /\ p_built' = FALSE
    /\ p_signed' = FALSE
    /\ p_outcome' = "running"
    /\ p_bridge' = "none"
    /\ p_resultBridge' = "none"
    /\ p_route' = NoRoute
    /\ UNCHANGED <<requestVars, p_allowance, p_allowanceCalls, p_ctx>>
    /\ UNCHANGED otherThanPrepare

\* dispatch on the currency, then _resolve_socket_route (vault route only)
\* and _make_bridge_context with the protocol of the chosen branch
ResolveRoute ==
    /\ p_pc = "route"
    /\ LET bt == IF p_currency = DRV THEN LAYERZERO ELSE SOCKET
           r == IF p_currency = DRV THEN NoRoute
                ELSE ResolveSocketRoute(p_registry, p_op, p_currency)
           c == MakeBridgeContext(p_registry, p_op, bt, p_currency)
       IN  /\ p_route' = r
           /\ IF r.called /\ r.kind # "ok"
                 THEN PrepareRaises(r.kind)
              ELSE IF c.kind # "context"
                 THEN PrepareRaises(c.kind)
              ELSE /\ p_pc' = IF p_currency # DRV /\ p_op = WITHDRAW
                              THEN "build" ELSE "balance"
                   /\ UNCHANGED p_outcome
    /\ UNCHANGED <<requestVars, p_allowance, p_calls, p_allowanceCalls, p_sent,
                   p_balanceOk, p_built, p_signed, p_bridge, p_resultBridge, p_ctx>>
    /\ UNCHANGED otherThanPrepare

\* ensure_balance: amount > balance raises
EnsureBalance ==
    /\ p_pc = "balance"
    /\ IF p_amount > p_balance
          THEN /\ PrepareRaises("InsufficientBalance")
               /\ UNCHANGED p_balanceOk
          ELSE /\ p_balanceOk' = TRUE
               /\ p_pc' = IF p_op = DEPOSIT THEN "allowance" ELSE "fee"
               /\ UNCHANGED p_outcome
    /\ UNCHANGED <<requestVars, p_allowance, p_calls, p_allowanceCalls, p_sent,
                   p_built, p_signed, p_bridge, p_resultBridge, p_ctx, p_route>>
    /\ UNCHANGED otherThanPrepare

\* one ensure_allowance call, as it ended
AllowanceCall(before, sent, ok, after) ==
    [before |-> before, sent |-> sent, ok |-> ok, after |-> after]

\* ensure_allowance: read the allowance, approve only when it is too small
EnsureAllowance ==
    /\ p_pc = "allowance"
    /\ IF NeedsApproval(p_amount, p_allowance)
          THEN /\ p_pc' = "approve"
               /\ UNCHANGED p_allowanceCalls
          ELSE /\ p_pc' = "build"
               /\ p_allowanceCalls' =
                    Append(p_allowanceCalls,
                           AllowanceCall(p_allowance, 0, TRUE, p_allowance))
    /\ UNCHANGED <<requestVars, p_allowance, p_calls, p_sent, p_balanceOk, p_built,
                   p_signed, p_outcome, p_bridge, p_resultBridge, p_ctx, p_route>>
    /\ UNCHANGED otherThanPrepare

\* increase_allowance: build_standard_transaction of approve() raises
IncreaseAllowanceBuildFails ==
    /\ p_pc = "approve"
    /\ p_allowanceCalls' =
         Append(p_allowanceCalls, AllowanceCall(p_allowance, 0, FALSE, p_allowance))
    /\ PrepareRaises("ApproveBuildFailed")
    /\ UNCHANGED <<requestVars, p_allowance, p_calls, p_sent, p_balanceOk, p_built,
                   p_signed, p_bridge, p_resultBridge, p_ctx, p_route>>
    /\ UNCHANGED otherThanPrepare

\* increase_allowance: approve(spender, amount) is sent and waited for
IncreaseAllowance ==
    /\ p_pc = "approve"
    /\ \E status \in {SUCCESS, FAILED, PENDING} :
         LET after == IF status = SUCCESS THEN p_amount ELSE p_allowance
         IN  /\ p_sent' = p_sent + 1
             /\ p_allowance' = after
             /\ p_allowanceCalls' =
                  Append(p_allowanceCalls,
                         AllowanceCall(p_allowance, 1, ApproveConfirmed(status), after))
             /\ IF ApproveConfirmed(status)
                   THEN /\ p_pc' = "build"
                        /\ UNCHANGED p_outcome
                   ELSE PrepareRaises("ApproveFailed")
    /\ UNCHANGED <<requestVars, p_calls, p_balanceOk, p_built, p_signed, p_bridge,
                   p_resultBridge, p_ctx, p_route>>
    /\ UNCHANGED otherThanPrepare

\* _prepare_layerzero_withdrawal: getFeeInToken, then amount < fee raises with
\* a message that divides by the amount
CheckFee ==
    /\ p_pc = "fee"
    /\ IF p_amount < p_fee
          THEN IF p_amount = 0
                  THEN PrepareRaises("ZeroDivisionError")
                  ELSE PrepareRaises("DrvWithdrawAmountBelowFee")
          ELSE /\ p_pc' = "build"
               /\ UNCHANGED p_outcome
    /\ UNCHANGED <<requestVars, p_allowance, p_calls, p_allowanceCalls, p_sent,
                   p_balanceOk, p_built, p_signed, p_bridge, p_resultBridge, p_ctx,
                   p_route>>
    /\ UNCHANGED otherThanPrepare

\* _prepare_tx: build_standard_transaction returns
BuildBridgeTx ==
    /\ p_pc = "build"
    /\ p_built' = TRUE
    /\ p_pc' = "sign"
    /\ UNCHANGED <<requestVars, p_allowance, p_calls, p_allowanceCalls, p_sent,
                   p_balanceOk, p_signed, p_outcome, p_bridge, p_resultBridge, p_ctx,
                   p_route>>
    /\ UNCHANGED otherThanPrepare

\* the fee quote or build_standard_transaction (simulation) raises
BuildBridgeTxFails ==
    /\ p_pc = "build"
    /\ PrepareRaises("BuildFailed")
    /\ UNCHANGED <<requestVars, p_allowance, p_calls, p_allowanceCalls, p_sent,
                   p_balanceOk, p_built, p_signed, p_bridge, p_resultBridge, p_ctx,
                   p_route>>
    /\ UNCHANGED otherThanPrepare

\* _prepare_tx: sign_tx, then the PreparedBridgeTx is returned
SignBridgeTx ==
    /\ p_pc = "sign"
    /\ p_signed' = TRUE
    /\ p_bridge' = PreparedBridge(p_currency)
    /\ p_outcome' = "prepared"
    /\ p_pc' = "idle"
    /\ UNCHANGED <<requestVars, p_allowance, p_calls, p_allowanceCalls, p_sent,
                   p_balanceOk, p_built, p_resultBridge, p_ctx, p_route>>
    /\ UNCHANGED otherThanPrepare

\* send_bridge_tx: BridgeTxResult(bridge=prepared_tx.bridge, ...)
SendPrepared ==
    /\ p_pc = "idle"
    /\ p_outcome = "prepared"
    /\ p_resultBridge = "none"
    /\ p_resultBridge' = p_bridge
    /\ UNCHANGED <<requestVars, p_pc, p_allowance, p_calls, p_allowanceCalls, p_sent,
                   p_balanceOk, p_built, p_signed, p_outcome, p_bridge, p_ctx, p_route>>
    /\ UNCHANGED otherThanPrepare

\* _make_bridge_context called with any direction, bridge type and currency
MakeContextCall ==
    /\ p_pc = "idle"
    /\ \E d \in Directions, b \in {LAYERZERO, SOCKET}, c \in Currencies :
         LET out == MakeBridgeContext(p_registry, d, b, c)
         IN  p_ctx' = [called |-> TRUE, direction |-> d, bridge_type |-> b,
                       currency |-> c, kind |-> out.kind, bridge |-> out.bridge]
    /\ UNCHANGED <<requestVars, p_pc, p_allowance, p_calls, p_allowanceCalls, p_sent,
                   p_balanceOk, p_built, p_signed, p_outcome, p_bridge,
                   p_resultBridge, p_route>>
    /\ UNCHANGED otherThanPrepare

InitPrep == IdleBridge /\ IdleFinality /\ IdleModels /\ InitPrepareVars /\ IdleRotating /\ IdleExtra

NextPrepare ==
    \/ StartPrepare
    \/ ResolveRoute
    \/ EnsureBalance
    \/ EnsureAllowance
    \/ IncreaseAllowanceBuildFails
    \/ IncreaseAllowance
    \/ CheckFee
    \/ BuildBridgeTx
    \/ BuildBridgeTxFails
    \/ SignBridgeTx
    \/ SendPrepared
    \/ MakeContextCall

SpecPrepare == InitPrep /\ [][NextPrepare]_vars

(***************************************************************************)
(* Properties of the prepare step (checked under SpecPrepare).             *)
(***************************************************************************)
\* the registry holds entries for the currency on both chains of the
\* direction, each listing the counter-chain among its connectors
RouteRegistered(reg, direction, currency) ==
    LET src == SourceChainOf(direction)
        tgt == TargetChainOf(direction)
    IN  /\ <<src, currency>> \in reg.tokens
        /\ <<tgt, currency>> \in reg.tokens
        /\ <<src, currency, tgt>> \in reg.connectors
        /\ <<tgt, currency, src>> \in reg.connectors

\* C14: for a non-native currency, route resolution succeeds exactly when the
\* registry has entries for (source, currency) and (target, currency) that list
\* each other's chain as connector; in every other case, a chain or currency
\* absent from the registry included, it raises BridgeRouteError (and no other
\* error) naming the side that lacks the path.
C14_RouteResolution ==
    p_route.called =>
        IF RouteRegistered(p_registry, p_op, p_currency)
        THEN p_route.kind = "ok"
        ELSE p_route.kind = "BridgeRouteError" /\ p_route.side \in {"source", "target"}

\* C15 as stated: a DRV request yields a LAYERZERO context whatever bridge type
\* was requested, any other currency a SOCKET context.
C15_ProtocolRegardlessOfRequest ==
    p_ctx.called =>
        /\ p_ctx.currency = DRV => p_ctx.kind = "context" /\ p_ctx.bridge = LAYERZERO
        /\ p_ctx.currency # DRV /\ p_ctx.kind = "context" => p_ctx.bridge = SOCKET

\* C15 (amended): a context is produced only for the pairing LAYERZERO with DRV
\* or SOCKET with another currency, so DRV never runs on SOCKET and no other
\* currency on LAYERZERO; prepare picks the protocol from the currency alone and
\* the PreparedBridgeTx and the BridgeTxResult carry that bridge type.
C15_ProtocolFollowsCurrency ==
    /\ p_ctx.called /\ p_ctx.kind = "context" =>
           /\ p_ctx.bridge = p_ctx.bridge_type
           /\ p_ctx.bridge = LAYERZERO <=> p_ctx.currency = DRV
    /\ p_outcome = "prepared" =>
           p_bridge = IF p_currency = DRV THEN LAYERZERO ELSE SOCKET
    /\ p_resultBridge # "none" =>
           /\ p_resultBridge = p_bridge
           /\ p_resultBridge = LAYERZERO <=> p_currency = DRV

C15_Witness ==
    /\ p_currency = DRV
    /\ p_resultBridge = LAYERZERO
    /\ p_ctx.called /\ p_ctx.currency = DRV /\ p_ctx.bridge = LAYERZERO

\* C16: a request pairing SOCKET with DRV, or LAYERZERO with another currency,
\* is rejected with BridgeRouteError and produces no BridgeContext.
C16_WrongPairingRejected ==
    p_ctx.called /\ (p_ctx.bridge_type = LAYERZERO <=> p_ctx.currency # DRV) =>
        p_ctx.kind = "BridgeRouteError" /\ p_ctx.bridge = "none"

C16_Witness ==
    /\ p_ctx.called
    /\ p_ctx.bridge_type = SOCKET
    /\ p_ctx.currency = DRV
    /\ p_ctx.kind = "BridgeRouteError"

\* C17: a withdrawal whose amount is below the quoted fee, for every amount >= 0
\* and every currency, raises DrvWithdrawAmountBelowFee before the bridge
\* transaction is built or signed (calls that already failed on the route or
\* the balance aside).
C17_BelowFeeRejected ==
    p_op = WITHDRAW /\ p_amount < p_fee /\ p_calls > 0 =>
        /\ ~p_built
        /\ ~p_signed
        /\ p_pc = "idle" /\ p_outcome \notin {"BridgeRouteError", "KeyError",
                                              "InsufficientBalance"}
              => p_outcome = "DrvWithdrawAmountBelowFee"

\* the allowance step behaves per call: one approval at most, only when the
\* amount exceeds the allowance read, and a call that returns leaves
\* allowance >= amount
AllowanceCallsSound ==
    \A i \in 1..Len(p_allowanceCalls) :
        LET c == p_allowanceCalls[i]
        IN  /\ c.sent <= 1
            /\ c.sent = 1 => p_amount > c.before
            /\ c.ok => c.after >= p_amount

C19_ChecksBeforeBuild ==
    /\ p_op = DEPOSIT /\ (p_built \/ p_pc \in {"build", "sign"}) =>
           /\ p_balanceOk
           /\ p_allowance >= p_amount
           /\ Len(p_allowanceCalls) >= 1
           /\ LET c == p_allowanceCalls[Len(p_allowanceCalls)]
              IN  /\ c.ok
                  /\ p_amount > c.before => c.sent = 1 /\ p_sent = 1
    /\ p_outcome = "InsufficientBalance" => p_sent = 0 /\ ~p_built /\ ~p_signed
    /\ p_outcome \in {"ApproveFailed", "ApproveBuildFailed"} => ~p_built /\ ~p_signed
    /\ p_signed => p_built

C19_Witness ==
    /\ p_op = DEPOSIT
    /\ p_sent = 1
    /\ p_signed
    /\ p_outcome = "prepared"

(***************************************************************************)
(* make_rotating_provider_middleware: a heap of EndpointStates shared by   *)
(* the calling threads, one rotating_backoff call per thread at a time.    *)
(***************************************************************************)
otherThanRotating == <<bridgeVars, finVars, modelVars, prepVars, extraVars>>

MaxClock == 3
MaxBackoff == 4
InitialBackoff == 1

Min2(a, b) == IF a < b THEN a ELSE b

\* the Retry-After header of a failed response: absent or not a number, or a number
NoRetryAfter == [valid |-> FALSE, value |-> 0]

RetryAfterHeaders ==
    {NoRetryAfter} \cup { [valid |-> TRUE, value |-> v] : v \in {0, 2, MaxBackoff + 1} }

\* the response a RequestException carries: none, one with a status of 400
\* or more (false in a boolean context: Response.__bool__ is Response.ok),
\* or one with a status below 400 (as TooManyRedirects carries)
ExceptionResponses == {"none", "error_status", "ok_status"}

\* hdr = (e.response and e.response.headers or {}).get("Retry-After")
HeaderRead(response, hdr) ==
    IF response = "ok_status" THEN hdr ELSE NoRetryAfter

\* heappop on the whole heap: any EndpointState in it
AnyInHeap(heap, st) == heap

\* heappop: an EndpointState that no other in the heap is less than (__lt__)
EarliestInHeap(heap, st) ==
    { p \in heap : \A q \in heap : ~(st[q].next_available < st[p].next_available) }

\* step 2 skipped: every state popped is used
IsReadyAlways(state, now) == TRUE

\* step 2: if state.next_available > now the state is pushed back
IsReady(state, now) == ~(state.next_available > now)

\* JSON-RPC error branch
BackoffAfterRpcError(backoff) ==
    Min2(IF backoff # 0 THEN backoff * 2 ELSE InitialBackoff, MaxBackoff)

\* RequestException branch, with the Retry-After header of the response
BackoffAfterRequestException(backoff, hdr) ==
    Min2(IF hdr.valid THEN hdr.value
         ELSE IF backoff > 0 THEN backoff * 2 ELSE InitialBackoff,
         MaxBackoff)

\* any other exception
BackoffAfterUnexpected == MaxBackoff

\* least next_available in a non-empty heap
MinNext(heap, st) ==
    CHOOSE m \in { st[q].next_available : q \in heap } :
        \A q \in heap : m <= st[q].next_available

InitRotatingVars ==
    /\ r_clock = 0
    /\ r_pool \in (SUBSET Providers) \ {{}}
    /\ r_heap = r_pool
    /\ r_state = [p \in Providers |-> FreshEndpoint]
    /\ r_th = [t \in Threads |-> IdleThread]

\* time passes
Tick ==
    /\ r_clock < MaxClock
    /\ r_clock' = r_clock + 1
    /\ UNCHANGED <<r_pool, r_heap, r_state, r_th>>
    /\ UNCHANGED otherThanRotating

\* rotating_backoff(method, params) is entered: now = time.monotonic()
RotCall(t) ==
    /\ r_th[t].pc = "idle"
    /\ r_th' = [r_th EXCEPT ![t] = [IdleThread EXCEPT !.pc = "pop", !.now = r_clock]]
    /\ UNCHANGED <<r_clock, r_pool, r_heap, r_state>>
    /\ UNCHANGED otherThanRotating

\* step 1: with lock: state = heapq.heappop(heap)
HeapPop(t) ==
    /\ r_th[t].pc = "pop"
    /\ r_heap # {}
    /\ \E p \in EarliestInHeap(r_heap, r_state) :
         /\ r_heap' = r_heap \ {p}
         /\ r_th' = [r_th EXCEPT ![t].pc = "check", ![t].held = p,
                                 ![t].minAtPop = MinNext(r_heap, r_state)]
    /\ UNCHANGED <<r_clock, r_pool, r_state>>
    /\ UNCHANGED otherThanRotating

\* step 1 on an empty heap: heappop raises IndexError
HeapPopEmpty(t) ==
    /\ r_th[t].pc = "pop"
    /\ r_heap = {}
    /\ r_th' = [r_th EXCEPT ![t].pc = "idle", ![t].now = 0, ![t].sentTo = {},
                            ![t].outcome = "IndexError"]
    /\ UNCHANGED <<r_clock, r_pool, r_heap, r_state>>
    /\ UNCHANGED otherThanRotating

\* step 2: the state popped is not ready: push it back, raise NoAvailableRPC
RaiseNoAvailable(t) ==
    /\ r_th[t].pc = "check"
    /\ ~IsReady(r_state[r_th[t].held], r_th[t].now)
    /\ r_heap' = r_heap \cup {r_th[t].held}
    /\ r_state' = r_state
    /\ r_th' = [r_th EXCEPT ![t].pc = "idle", ![t].held = "none",
                            ![t].now = 0, ![t].minAtPop = 0, ![t].sentTo = {},
                            ![t].outcome = "NoAvailableRPC",
                            ![t].raisedNext =
                                r_state[r_th[t].held].next_available - r_th[t].now,
                            ![t].raisedChanged = (r_state' # r_state),
                            ![t].raisedAllInBackoff =
                                \A q \in r_pool : r_state[q].next_available > r_clock]
    /\ UNCHANGED <<r_clock, r_pool>>
    /\ UNCHANGED otherThanRotating

\* step 3: state.provider.make_request(method, params) is sent
SendRequest(t) ==
    /\ r_th[t].pc = "check"
    /\ IsReady(r_state[r_th[t].held], r_th[t].now)
    /\ r_th' = [r_th EXCEPT ![t].pc = "request",
                            ![t].sentTo = r_th[t].sentTo \cup {r_th[t].held}]
    /\ UNCHANGED <<r_clock, r_pool, r_heap, r_state>>
    /\ UNCHANGED otherThanRotating

\* the state held is updated and pushed back; the loop continues
RequeueAndContinue(t, backoff) ==
    /\ r_state' = [r_state EXCEPT ![r_th[t].held] =
                      [backoff |-> backoff, next_available |-> r_th[t].now + backoff]]
    /\ r_heap' = r_heap \cup {r_th[t].held}
    /\ r_th' = [r_th EXCEPT ![t].pc = "pop", ![t].held = "none", ![t].minAtPop = 0]

\* step 4: a response without error: backoff reset, next_available = now, return
RespondSuccess(t) ==
    /\ r_th[t].pc = "request"
    /\ r_state' = [r_state EXCEPT ![r_th[t].held] =
                      [backoff |-> 0, next_available |-> r_th[t].now]]
    /\ r_heap' = r_heap \cup {r_th[t].held}
    /\ r_th' = [r_th EXCEPT ![t].pc = "idle", ![t].held = "none",
                            ![t].now = 0, ![t].minAtPop = 0, ![t].sentTo = {},
                            ![t].outcome = "returned"]
    /\ UNCHANGED <<r_clock, r_pool>>
    /\ UNCHANGED otherThanRotating

\* the response carries a JSON-RPC error
RespondRpcError(t) ==
    /\ r_th[t].pc = "request"
    /\ RequeueAndContinue(t, BackoffAfterRpcError(r_state[r_th[t].held].backoff))
    /\ UNCHANGED <<r_clock, r_pool>>
    /\ UNCHANGED otherThanRotating

\* make_request raises RequestException
RespondRequestException(t) ==
    /\ r_th[t].pc = "request"
    /\ \E response \in ExceptionResponses, hdr \in RetryAfterHeaders :
         RequeueAndContinue(t, BackoffAfterRequestException(
                                   r_state[r_th[t].held].backoff,
                                   HeaderRead(response, hdr)))
    /\ UNCHANGED <<r_clock, r_pool>>
    /\ UNCHANGED otherThanRotating

\* make_request raises any other exception
RespondUnexpected(t) ==
    /\ r_th[t].pc = "request"
    /\ RequeueAndContinue(t, BackoffAfterUnexpected)
    /\ UNCHANGED <<r_clock, r_pool>>
    /\ UNCHANGED otherThanRotating

InitRot == IdleBridge /\ IdleFinality /\ IdleModels /\ IdlePrepare /\ InitRotatingVars /\ IdleExtra

NextRotating ==
    \/ Tick
    \/ \E t \in Threads : RotCall(t)
    \/ \E t \in Threads : HeapPop(t)
    \/ \E t \in Threads : HeapPopEmpty(t)
    \/ \E t \in Threads : RaiseNoAvailable(t)
    \/ \E t \in Threads : SendRequest(t)
    \/ \E t \in Threads : RespondSuccess(t)
    \/ \E t \in Threads : RespondRpcError(t)
    \/ \E t \in Threads : RespondUnexpected(t)
    \/ \E t \in Threads : RespondRequestException(t)

SpecRotating == InitRot /\ [][NextRotating]_vars

C21_BackoffMonotone ==
    [][\A t \in Threads :
          r_th[t].pc = "request" =>
              LET p == r_th[t].held
              IN  /\ r_th'[t].pc = "pop" => r_state'[p].backoff >= r_state[p].backoff
                  /\ r_th'[t].pc = "idle" =>
                         /\ r_state'[p].backoff = 0
                         /\ r_state'[p].next_available <= r_clock']_vars

\* C23: under every interleaving of concurrent callers a call ends by
\* returning a response or by raising NoAvailableRPC, and it raises
\* NoAvailableRPC only when every provider of the pool is in backoff then.
C23_ReturnsOrAllInBackoff ==
    \A t \in Threads :
        /\ r_th[t].outcome \in {"none", "returned", "NoAvailableRPC"}
        /\ r_th[t].outcome = "NoAvailableRPC" => r_th[t].raisedAllInBackoff

\* C32: every provider's backoff stays within 0..max_backoff, and a provider
\* whose attempt failed is re-queued with a backoff above zero and a
\* next-available time strictly later than the time of the attempt (taken
\* here as the `now` of the call, the earliest it can be).
C32_BackoffBoundedAndLater ==
    /\ [](\A p \in r_pool : 0 <= r_state[p].backoff /\ r_state[p].backoff <= MaxBackoff)
    /\ [][\A t \in Threads :
            (r_th[t].pc = "request" /\ r_th'[t].pc = "pop") =>
                LET p == r_th[t].held
                IN  /\ r_state'[p].backoff > 0
                    /\ r_state'[p].next_available > r_th[t].now]_vars

(***************************************************************************)
(* The middleware over an unbounded run: once the clock has reached        *)
(* MaxClock every time of the model is moved back by one instead, which    *)
(* keeps all differences; this happens only while no time in use is at 0.  *)
(***************************************************************************)
ShiftTime(v) == IF v > 0 THEN v - 1 ELSE 0

\* time passes at r_clock = MaxClock
TickRebase ==
    /\ r_clock = MaxClock
    /\ \A p \in r_pool : r_state[p].next_available > 0
    /\ \A t \in Threads : r_th[t].pc # "idle" => r_th[t].now > 0
    /\ r_state' = [p \in Providers |->
                     [r_state[p] EXCEPT !.next_available = ShiftTime(@)]]
    /\ r_th' = [t \in Threads |->
                  [r_th[t] EXCEPT !.now = ShiftTime(@), !.minAtPop = ShiftTime(@)]]
    /\ UNCHANGED <<r_clock, r_pool, r_heap>>
    /\ UNCHANGED otherThanRotating

\* any step of thread t inside or into rotating_backoff (a caller that is
\* alone never finds the heap empty)
ThreadStep(t) ==
    \/ RotCall(t)
    \/ HeapPop(t)
    \/ RaiseNoAvailable(t)
    \/ SendRequest(t)
    \/ RespondSuccess(t)
    \/ RespondRpcError(t)
    \/ RespondUnexpected(t)
    \/ RespondRequestException(t)

\* the caller of the run: one call after the other, as in test_rotating_middelware
LiveThreads == {"t1"}

NextRotatingLive ==
    \/ Tick
    \/ TickRebase
    \/ \E t \in LiveThreads : ThreadStep(t)

\* provider p answers a request without error
RespondSuccessOf(p) == \E t \in Threads : r_th[t].held = p /\ RespondSuccess(t)

\* time advances, the caller keeps calling, every request is answered, and
\* no provider is persistently failing: one that is asked again and again
\* answers without error again and again
SpecRotatingLive ==
    /\ InitRot
    /\ [][NextRotatingLive]_vars
    /\ WF_vars(Tick)
    /\ WF_vars(TickRebase)
    /\ \A t \in LiveThreads : WF_vars(ThreadStep(t))
    /\ \A p \in Providers : SF_vars(RespondSuccessOf(p))

\* a request is in flight to provider p
Selected(p) == \E t \in Threads : r_th[t].pc = "request" /\ r_th[t].held = p

\* C22: while calls keep being made and time advances, every provider of the
\* pool is selected again and again: none is starved by the others.
C22_EveryProviderSelected ==
    \A p \in Providers : []<>(p \in r_pool => Selected(p))

C22_Witness ==
    /\ r_pool = Providers
    /\ r_clock = MaxClock
    /\ Selected("p2")
    /\ r_state["p1"].next_available > 0
    /\ r_state["p2"].next_available > 0

\* C35: a call sends at most one request to each provider: the provider a
\* request goes to has had none from this call before, and a call ends only
\* by returning or by raising NoAvailableRPC.
C35_OneRequestPerProvider ==
    /\ [](\A t \in LiveThreads : r_th[t].outcome \in {"none", "returned", "NoAvailableRPC"})
    /\ [][\A t \in LiveThreads :
            (r_th[t].pc = "check" /\ r_th'[t].pc = "request") =>
                r_th[t].held \notin r_th[t].sentTo]_vars

(***************************************************************************)
(* Build, simulate, sign and send of one transaction: _prepare_tx with     *)
(* build_standard_transaction under exp_backoff_retry, then send_bridge_tx. *)
(***************************************************************************)
otherThanTx == <<bridgeVars, finVars, modelVars, prepVars, rotVars, gasVars, evVars,
    lockVars, moreVars>>

MaxNative == 3
MaxGas == 2
MaxFee == 2

\* exp_backoff_retry(attempts=3, initial_delay=1)
Attempts == 3
InitialDelay == 1

\* what send_raw_transaction raises
SendExceptions == {"Web3RPCError", "ConnectionError"}

\* a simulate_tx that also rejects a balance equal to the cost
BalanceCoversStrict(balance, total_cost) == balance > total_cost

\* simulate_tx: balance >= total_cost
BalanceCovers(balance, total_cost) == balance >= total_cost

\* simulate_tx: total_cost = tx["gas"] * tx["maxFeePerGas"] + tx["value"]
TotalCost(tx, value) == tx.gas * tx.fee + value

InitTxVars ==
    /\ x_pc = "fetch"
    /\ x_attempt = 0
    /\ x_delay = InitialDelay
    /\ x_native \in 0..MaxNative
    /\ x_value \in {0, 1}
    /\ x_tx = NoTx
    /\ x_raised = <<>>
    /\ x_simCalls = 0
    /\ x_signed = FALSE
    /\ x_broadcast = FALSE
    /\ x_result = FALSE
    /\ x_error = NoException

InitTx ==
    /\ IdleBridge /\ IdleFinality /\ IdleModels /\ IdlePrepare /\ IdleRotating
    /\ InitTxVars /\ IdleGas /\ IdleEvents /\ IdleLock /\ IdleMore

\* exp_backoff_retry's except branch: exception e of the wrapped function is
\* re-raised on the last attempt, otherwise the wrapper sleeps, doubles the
\* delay and runs the function again
Caught(e) ==
    /\ x_raised' = Append(x_raised, e)
    /\ IF x_attempt = Attempts - 1
       THEN /\ x_pc' = "failed"
            /\ x_error' = [kind |-> e, cause |-> "none", at |-> "build"]
            /\ UNCHANGED <<x_attempt, x_delay>>
       ELSE /\ x_pc' = "fetch"
            /\ x_attempt' = x_attempt + 1
            /\ x_delay' = x_delay * 2
            /\ UNCHANGED x_error

\* build_standard_transaction: nonce, fee estimate, build_transaction and
\* estimate_gas answer; tx["gas"] and tx["maxFeePerGas"] are set
FetchAndEstimate ==
    /\ x_pc = "fetch"
    /\ \E g \in 1..MaxGas, f \in 1..MaxFee :
           x_tx' = [present |-> TRUE, gas |-> g, fee |-> f, balance |-> 0,
                    checked |-> FALSE, built |-> FALSE]
    /\ x_pc' = "balance"
    /\ UNCHANGED <<x_attempt, x_delay, x_native, x_value, x_raised, x_simCalls,
                   x_signed, x_broadcast, x_result, x_error>>
    /\ UNCHANGED otherThanTx

\* build_standard_transaction: one of those requests raises
FetchFails ==
    /\ x_pc = "fetch"
    /\ x_tx' = NoTx
    /\ Caught("RpcError")
    /\ UNCHANGED <<x_native, x_value, x_simCalls, x_signed, x_broadcast, x_result>>
    /\ UNCHANGED otherThanTx

\* simulate_tx: get_balance answers and the balance is compared with the cost
CheckBalance ==
    /\ x_pc = "balance"
    /\ x_tx' = [x_tx EXCEPT !.balance = x_native, !.checked = TRUE]
    /\ IF BalanceCovers(x_native, TotalCost(x_tx, x_value))
       THEN /\ x_pc' = "call"
            /\ UNCHANGED <<x_attempt, x_delay, x_raised, x_error>>
       ELSE Caught("InsufficientNativeBalance")
    /\ UNCHANGED <<x_native, x_value, x_simCalls, x_signed, x_broadcast, x_result>>
    /\ UNCHANGED otherThanTx

\* simulate_tx: get_balance raises
BalanceReadFails ==
    /\ x_pc = "balance"
    /\ Caught("RpcError")
    /\ UNCHANGED <<x_native, x_value, x_tx, x_simCalls, x_signed, x_broadcast, x_result>>
    /\ UNCHANGED otherThanTx

\* simulate_tx: w3.eth.call succeeds and the transaction is returned
SimulateCall ==
    /\ x_pc = "call"
    /\ x_simCalls' = x_simCalls + 1
    /\ x_tx' = [x_tx EXCEPT !.built = TRUE]
    /\ x_pc' = "built"
    /\ UNCHANGED <<x_attempt, x_delay, x_native, x_value, x_raised,
                   x_signed, x_broadcast, x_result, x_error>>
    /\ UNCHANGED otherThanTx

\* simulate_tx: w3.eth.call reverts or the request fails
SimulateCallFails ==
    /\ x_pc = "call"
    /\ x_simCalls' = x_simCalls + 1
    /\ \E e \in {"ContractLogicError", "RpcError"} : Caught(e)
    /\ UNCHANGED <<x_native, x_value, x_tx, x_signed, x_broadcast, x_result>>
    /\ UNCHANGED otherThanTx

\* _prepare_tx: sign_tx on the transaction the build returned
SignBuiltTx ==
    /\ x_pc = "built"
    /\ x_signed' = TRUE
    /\ x_pc' = "signed"
    /\ UNCHANGED <<x_attempt, x_delay, x_native, x_value, x_tx, x_raised, x_simCalls,
                   x_broadcast, x_result, x_error>>
    /\ UNCHANGED otherThanTx

\* send_bridge_tx: the target chain height is read
SendReadHeight ==
    /\ x_pc = "signed"
    /\ x_pc' = "send"
    /\ UNCHANGED <<x_attempt, x_delay, x_native, x_value, x_tx, x_raised, x_simCalls,
                   x_signed, x_broadcast, x_result, x_error>>
    /\ UNCHANGED otherThanTx

\* send_bridge_tx: the read of the target chain height raises
SendReadHeightFails ==
    /\ x_pc = "signed"
    /\ x_pc' = "failed"
    /\ x_error' = [kind |-> "RpcError", cause |-> "none", at |-> "height"]
    /\ UNCHANGED <<x_attempt, x_delay, x_native, x_value, x_tx, x_raised, x_simCalls,
                   x_signed, x_broadcast, x_result>>
    /\ UNCHANGED otherThanTx

\* send_tx: send_raw_transaction accepts the signed transaction
SendTx ==
    /\ x_pc = "send"
    /\ x_broadcast' = TRUE
    /\ x_pc' = "sent"
    /\ UNCHANGED <<x_attempt, x_delay, x_native, x_value, x_tx, x_raised, x_simCalls,
                   x_signed, x_result, x_error>>
    /\ UNCHANGED otherThanTx

\* send_tx: send_raw_transaction raises e; neither send_tx nor send_bridge_tx
\* nor submit_bridge_tx has an except clause, so e itself reaches the caller
SendTxFails ==
    /\ x_pc = "send"
    /\ x_pc' = "failed"
    /\ \E e \in SendExceptions :
           x_error' = [kind |-> e, cause |-> "none", at |-> "send"]
    /\ UNCHANGED <<x_attempt, x_delay, x_native, x_value, x_tx, x_raised, x_simCalls,
                   x_signed, x_broadcast, x_result>>
    /\ UNCHANGED otherThanTx

\* send_bridge_tx: the BridgeTxResult is built and returned
SendBuildResult ==
    /\ x_pc = "sent"
    /\ x_result' = TRUE
    /\ x_pc' = "done"
    /\ UNCHANGED <<x_attempt, x_delay, x_native, x_value, x_tx, x_raised, x_simCalls,
                   x_signed, x_broadcast, x_error>>
    /\ UNCHANGED otherThanTx

\* the signer's account receives native tokens
Fund ==
    /\ x_pc \notin {"done", "failed"}
    /\ x_native < MaxNative
    /\ x_native' = x_native + 1
    /\ UNCHANGED <<x_pc, x_attempt, x_delay, x_value, x_tx, x_raised, x_simCalls,
                   x_signed, x_broadcast, x_result, x_error>>
    /\ UNCHANGED otherThanTx

NextTx ==
    \/ FetchAndEstimate
    \/ FetchFails
    \/ CheckBalance
    \/ BalanceReadFails
    \/ SimulateCall
    \/ SimulateCallFails
    \/ SignBuiltTx
    \/ SendReadHeight
    \/ SendReadHeightFails
    \/ SendTx
    \/ SendTxFails
    \/ SendBuildResult
    \/ Fund

SpecTx == InitTx /\ [][NextTx]_vars

\* the exception the latest attempt of the build ended with
LastRaised == x_raised[Len(x_raised)]

\* an attempt of the build has just ended with an exception
AttemptJustFailed ==
    /\ x_raised # <<>>
    /\ x_pc = "fetch" \/ x_error.at = "build"

\* C24: an attempt of the build ends with InsufficientNativeBalance exactly
\* when the balance it read is below gas * max fee + value; the simulation
\* call is made only with a balance that covers the cost, the transaction is
\* signed only after the simulation succeeded, and a build that raised
\* leaves nothing signed.
C24_BalanceThenSimulateThenSign ==
    /\ AttemptJustFailed =>
           (LastRaised = "InsufficientNativeBalance"
               <=> (x_tx.present /\ x_tx.checked
                    /\ x_tx.balance < TotalCost(x_tx, x_value)))
    /\ (x_pc = "call" \/ (x_tx.present /\ x_tx.built)) =>
           x_tx.checked /\ x_tx.balance >= TotalCost(x_tx, x_value)
    /\ x_signed => x_tx.present /\ x_tx.built
    /\ x_error.at = "build" => ~x_signed /\ ~x_broadcast

C24_Witness ==
    /\ x_error.at = "build"
    /\ x_error.kind = "InsufficientNativeBalance"
    /\ x_tx.balance + 1 = TotalCost(x_tx, x_value)
    /\ x_simCalls > 0

\* C25: InsufficientNativeBalance reaches the caller the first time it is
\* raised: the build is not attempted again after it.
C25_SurfacedOnFirstOccurrence ==
    \A i \in 1..Len(x_raised) :
        x_raised[i] = "InsufficientNativeBalance" =>
            /\ i = Len(x_raised)
            /\ x_error.kind = "InsufficientNativeBalance"

\* C26: a failed broadcast reaches the caller of submit as TxSubmissionError
\* with the send exception as its cause, and no BridgeTxResult is returned.
C26_SendFailureWrapped ==
    x_error.at = "send" =>
        /\ x_error.kind = "TxSubmissionError"
        /\ x_error.cause \in SendExceptions
        /\ ~x_result

(***************************************************************************)
(* Withdrawal from the app-chain and the funding of its gas.               *)
(***************************************************************************)
otherThanGas == <<bridgeVars, finVars, modelVars, prepVars, rotVars, txVars, evVars,
    lockVars, moreVars>>

MaxGasBalance == 3
MaxMainnet == 5

\* gas_amount = to_wei(0.00005), in units of the model
GasThreshold == 2

\* main: eth_balance < gas_amount
BelowThreshold(balance) == balance < GasThreshold

InitGasVars ==
    /\ g_pc = "start"
    /\ g_entry \in {"main", "BridgeClient"}
    /\ g_native \in 0..MaxGasBalance
    /\ g_start = g_native
    /\ g_mainnet \in 0..MaxMainnet
    /\ g_cost = 0
    /\ g_funding = "none"
    /\ g_arrived = FALSE
    /\ g_built = FALSE
    /\ g_outcome = "none"

InitGas ==
    /\ IdleBridge /\ IdleFinality /\ IdleModels /\ IdlePrepare /\ IdleRotating
    /\ IdleTx /\ InitGasVars /\ IdleEvents /\ IdleLock /\ IdleMore

\* main: the gas token reserve is read and compared with gas_amount
CheckGasReserve ==
    /\ g_pc = "start"
    /\ g_entry = "main"
    /\ g_pc' = IF BelowThreshold(g_native) THEN "fund_simulate" ELSE "withdraw"
    /\ UNCHANGED <<g_entry, g_native, g_start, g_mainnet, g_cost, g_funding,
                   g_arrived, g_built, g_outcome>>
    /\ UNCHANGED otherThanGas

\* bridge_mainnet_eth_to_derive: simulate_tx builds the funding transaction
\* and compares the mainnet balance with its cost
FundSimulate ==
    /\ g_pc = "fund_simulate"
    /\ \E c \in 1..MaxGas :
           IF g_mainnet < c + GasThreshold
           THEN /\ g_pc' = "failed"
                /\ g_outcome' = "RuntimeError"
                /\ UNCHANGED g_cost
           ELSE /\ g_pc' = "fund_send"
                /\ g_cost' = c
                /\ UNCHANGED g_outcome
    /\ UNCHANGED <<g_entry, g_native, g_start, g_mainnet, g_funding,
                   g_arrived, g_built>>
    /\ UNCHANGED otherThanGas

\* bridge_mainnet_eth_to_derive: sign_and_send_tx returns the mainnet receipt
\* of the funding transaction, successful
FundSendConfirmed ==
    /\ g_pc = "fund_send"
    /\ g_mainnet' = g_mainnet - g_cost - GasThreshold
    /\ g_funding' = "confirmed"
    /\ g_pc' = "withdraw"
    /\ UNCHANGED <<g_entry, g_native, g_start, g_cost, g_arrived, g_built, g_outcome>>
    /\ UNCHANGED otherThanGas

\* bridge_mainnet_eth_to_derive: the receipt is a revert and main stops
FundSendReverted ==
    /\ g_pc = "fund_send"
    /\ g_mainnet' = g_mainnet - g_cost
    /\ g_funding' = "reverted"
    /\ g_pc' = "failed"
    /\ g_outcome' = "Exception"
    /\ UNCHANGED <<g_entry, g_native, g_start, g_cost, g_arrived, g_built>>
    /\ UNCHANGED otherThanGas

\* the mainnet bridge relays the funding to the app-chain
FundingArrives ==
    /\ g_funding = "confirmed"
    /\ ~g_arrived
    /\ g_arrived' = TRUE
    /\ g_native' = g_native + GasThreshold
    /\ UNCHANGED <<g_pc, g_entry, g_start, g_mainnet, g_cost, g_funding,
                   g_built, g_outcome>>
    /\ UNCHANGED otherThanGas

\* main: the withdrawal transaction is built
BuildWithdrawal ==
    /\ g_pc = "withdraw"
    /\ g_built' = TRUE
    /\ g_pc' = "done"
    /\ g_outcome' = "built"
    /\ UNCHANGED <<g_entry, g_native, g_start, g_mainnet, g_cost, g_funding, g_arrived>>
    /\ UNCHANGED otherThanGas

\* BridgeClient._prepare_socket_withdrawal: route, context and _prepare_tx;
\* the native balance of the signer is not read
PrepareSocketWithdrawal ==
    /\ g_pc = "start"
    /\ g_entry = "BridgeClient"
    /\ g_built' = TRUE
    /\ g_pc' = "done"
    /\ g_outcome' = "built"
    /\ UNCHANGED <<g_entry, g_native, g_start, g_mainnet, g_cost, g_funding, g_arrived>>
    /\ UNCHANGED otherThanGas

NextGas ==
    \/ CheckGasReserve
    \/ FundSimulate
    \/ FundSendConfirmed
    \/ FundSendReverted
    \/ FundingArrives
    \/ BuildWithdrawal
    \/ PrepareSocketWithdrawal

SpecGas == InitGas /\ [][NextGas]_vars

\* C27: a withdrawal is built only after a gas-funding transaction was sent
\* and confirmed when the signer's native balance was below the threshold,
\* and with no funding transaction when it was at or above the threshold.
C27_FundedBeforeWithdrawal ==
    g_built =>
        IF g_start < GasThreshold
        THEN g_funding = "confirmed"
        ELSE g_funding = "none"

(***************************************************************************)
(* iter_events and wait_for_event: the scan of a block window for logs.    *)
(***************************************************************************)
otherThanEvents == <<bridgeVars, finVars, modelVars, prepVars, rotVars, txVars, gasVars,
    lockVars, moreVars>>

MaxEvHead == 3
MaxRange == 2
EvTimeout == 2

\* the clock is followed until it has passed every deadline
MaxEvClock == EvTimeout + 1

\* EVENT_LOG_RETRIES (10 in the code), and poll_interval, in units of the model
EVENT_LOG_RETRIES == 3
EvPollInterval == 1

\* Python truth value of an optional number: None and 0 are false
Truthy(v) == v # NONE /\ v # 0

\* upper = fixed_ceiling or w3.eth.block_number
Upper(fixed_ceiling, head) ==
    IF Truthy(fixed_ceiling) THEN fixed_ceiling ELSE head

\* end = min(upper, cursor + max_block_range - 1)
WindowEnd(upper, cursor, max_block_range) ==
    Min2(upper, cursor + max_block_range - 1)

RECURSIVE Ascending(_)
\* the logs of a get_logs answer come in block order
Ascending(S) ==
    IF S = {} THEN <<>>
    ELSE LET m == CHOOSE x \in S : \A y \in S : x <= y
         IN  <<m>> \o Ascending(S \ {m})

\* the request built in the current iteration
LastRequest == e_requests[Len(e_requests)]

InitEventsVars ==
    /\ e_pc = "start"
    /\ e_consumer \in {"wait_for_event", "iter_events"}
    /\ e_clock = 0
    /\ e_deadline \in (IF e_consumer = "wait_for_event" THEN {EvTimeout}
                                                         ELSE {NONE, EvTimeout})
    /\ e_head \in 0..MaxEvHead
    /\ e_matches \in { S \in SUBSET (0..MaxEvHead) : Cardinality(S) <= 2 }
    /\ e_from \in {LATEST} \cup 0..MaxEvHead
    /\ e_ceiling \in {NONE} \cup 0..MaxEvHead
    /\ e_mbr \in 1..MaxRange
    /\ e_start = 0
    /\ e_cursor = 0
    /\ e_requests = <<>>
    /\ e_attempt = 0
    /\ e_yielded = <<>>
    /\ e_examined = {}
    /\ e_outcome = "none"

InitEvents ==
    /\ IdleBridge /\ IdleFinality /\ IdleModels /\ IdlePrepare /\ IdleRotating
    /\ IdleTx /\ IdleGas /\ InitEventsVars /\ IdleLock /\ IdleMore

\* iter_events: cursor and start_block are set, "latest" read from the node
IterStart ==
    /\ e_pc = "start"
    /\ e_cursor' = (IF e_from = LATEST THEN e_head ELSE e_from)
    /\ e_start' = e_cursor'
    /\ e_pc' = "loop"
    /\ UNCHANGED <<e_consumer, e_clock, e_deadline, e_head, e_matches, e_from,
                   e_ceiling, e_mbr, e_requests, e_attempt, e_yielded,
                   e_examined, e_outcome>>
    /\ UNCHANGED otherThanEvents

\* iter_events: the tail of an iteration with the cursor at c: raise
\* StopIteration past a fixed ceiling (RuntimeError inside a generator),
\* otherwise sleep
AfterWindow(c) ==
    IF Truthy(e_ceiling) /\ c > e_ceiling
    THEN e_pc' = "done" /\ e_outcome' = "RuntimeError"
    ELSE e_pc' = "sleep" /\ UNCHANGED e_outcome

\* iter_events: the deadline has passed at the top of the loop
LoopTimeout ==
    /\ e_pc = "loop"
    /\ Truthy(e_deadline) /\ e_clock > e_deadline
    /\ e_pc' = "done"
    /\ e_outcome' = "TimeoutError"
    /\ UNCHANGED <<e_consumer, e_clock, e_deadline, e_head, e_matches, e_from, e_ceiling,
                   e_mbr, e_start, e_cursor, e_requests, e_attempt, e_yielded,
                   e_examined>>
    /\ UNCHANGED otherThanEvents

\* iter_events: upper is read and, with the cursor within it, the get_logs
\* request of the iteration is built
LoopScan ==
    /\ e_pc = "loop"
    /\ ~(Truthy(e_deadline) /\ e_clock > e_deadline)
    /\ LET upper == Upper(e_ceiling, e_head)
       IN  IF e_cursor <= upper
           THEN /\ e_requests' = Append(e_requests,
                        [from |-> e_cursor,
                         to |-> WindowEnd(upper, e_cursor, e_mbr),
                         head |-> e_head])
                /\ e_attempt' = 0
                /\ e_pc' = "logs"
                /\ UNCHANGED e_outcome
           ELSE /\ AfterWindow(e_cursor)
                /\ UNCHANGED <<e_requests, e_attempt>>
    /\ UNCHANGED <<e_consumer, e_clock, e_deadline, e_head, e_matches, e_from, e_ceiling,
                   e_mbr, e_start, e_cursor, e_yielded,
                   e_examined>>
    /\ UNCHANGED otherThanEvents

\* blocks the provider that serves a request from..to can answer for: all of
\* them, or only those up to its own head when it lags behind the head that
\* was read (it then answers with the logs it has, without an error)
ServedUpTo(from, to) == (from - 1)..to

\* iter_events: get_logs answers; the matching logs are yielded in order
\* (wait_for_event takes the first and stops) and the cursor moves past end
GetLogsAnswers ==
    /\ e_pc = "logs"
    /\ \E hi \in ServedUpTo(LastRequest.from, LastRequest.to) :
         LET found == Ascending({ b \in e_matches : LastRequest.from <= b /\ b <= hi })
         IN  /\ e_examined' = e_examined \cup (LastRequest.from..hi)
             /\ IF found # <<>> /\ e_consumer = "wait_for_event"
                THEN /\ e_yielded' = <<found[1]>>
                     /\ e_pc' = "done"
                     /\ e_outcome' = "returned"
                     /\ UNCHANGED e_cursor
                ELSE /\ e_yielded' = e_yielded \o found
                     /\ e_cursor' = LastRequest.to + 1
                     /\ AfterWindow(LastRequest.to + 1)
    /\ UNCHANGED <<e_consumer, e_clock, e_deadline, e_head, e_matches, e_from, e_ceiling,
                   e_mbr, e_start, e_requests, e_attempt>>
    /\ UNCHANGED otherThanEvents

\* iter_events: get_logs raises; exp_backoff_retry sleeps and sends the same
\* request again, or re-raises on the last attempt
GetLogsFails ==
    /\ e_pc = "logs"
    /\ IF e_attempt = EVENT_LOG_RETRIES - 1
       THEN /\ e_pc' = "done"
            /\ e_outcome' = "GetLogsError"
            /\ UNCHANGED <<e_attempt, e_clock>>
       ELSE /\ e_attempt' = e_attempt + 1
            /\ e_clock' = Min2(e_clock + InitialDelay * 2^e_attempt, MaxEvClock)
            /\ UNCHANGED <<e_pc, e_outcome>>
    /\ UNCHANGED <<e_consumer, e_deadline, e_head, e_matches, e_from, e_ceiling,
                   e_mbr, e_start, e_cursor, e_requests, e_yielded,
                   e_examined>>
    /\ UNCHANGED otherThanEvents

\* iter_events: time.sleep(poll_interval)
EvSleep ==
    /\ e_pc = "sleep"
    /\ e_clock' = Min2(e_clock + EvPollInterval, MaxEvClock)
    /\ e_pc' = "loop"
    /\ UNCHANGED <<e_consumer, e_deadline, e_head, e_matches, e_from, e_ceiling,
                   e_mbr, e_start, e_cursor, e_requests, e_attempt, e_yielded,
                   e_examined, e_outcome>>
    /\ UNCHANGED otherThanEvents

\* the head the provider asked next reports is higher, or lower when it lags
\* (the head is read at the top of an iteration only)
HeadMoves ==
    /\ e_pc = "loop"
    /\ \E h \in (0..MaxEvHead) \ {e_head} : e_head' = h
    /\ UNCHANGED <<e_pc, e_consumer, e_clock, e_deadline, e_matches, e_from, e_ceiling,
                   e_mbr, e_start, e_cursor, e_requests, e_attempt, e_yielded,
                   e_examined, e_outcome>>
    /\ UNCHANGED otherThanEvents

NextEvents ==
    \/ IterStart
    \/ LoopTimeout
    \/ LoopScan
    \/ GetLogsAnswers
    \/ GetLogsFails
    \/ EvSleep
    \/ HeadMoves

SpecEvents == InitEvents /\ [][NextEvents]_vars

\* C28: wait_for_event ends by returning the first log that satisfies the
\* condition, or with TimeoutError after the deadline, or with the error of
\* get_logs once its retries are used up; it ends in no other way.
C28_ReturnsFirstOrTimesOut ==
    (e_consumer = "wait_for_event" /\ e_pc = "done") =>
        \/ /\ e_outcome = "returned"
           /\ e_yielded[1] \in e_matches
           /\ \A b \in e_matches : b >= e_start => b >= e_yielded[1]
        \/ /\ e_outcome = "TimeoutError"
           /\ e_clock > e_deadline
        \/ /\ e_outcome = "GetLogsError"
           /\ e_attempt = EVENT_LOG_RETRIES - 1

\* C30: every get_logs request covers at least one and at most
\* max_block_range blocks, ends at or before the fixed ceiling, or the head
\* read in its iteration when there is no ceiling; the first starts at the
\* starting block and each next one right after the previous; the cursor is
\* the start of the last request or the block after its end.
C30_WindowsBoundedContiguous ==
    /\ \A i \in 1..Len(e_requests) :
           LET r == e_requests[i]
           IN  /\ r.from <= r.to
               /\ r.to - r.from + 1 <= e_mbr
               /\ r.to <= (IF e_ceiling # NONE THEN e_ceiling ELSE r.head)
               /\ r.from = (IF i = 1 THEN e_start ELSE e_requests[i - 1].to + 1)
    /\ e_pc \notin {"idle", "start"} =>
           IF e_requests = <<>>
           THEN e_cursor = e_start
           ELSE e_cursor \in {LastRequest.from, LastRequest.to + 1}

\* C31: the cursor never moves past a block whose logs were not examined,
\* so wait_for_event returns the earliest log at or after the starting block
\* that satisfies the condition.
C31_NoBlockSkipped ==
    /\ e_pc \notin {"idle", "start"} =>
           \A b \in e_start..(e_cursor - 1) : b \in e_examined
    /\ (e_consumer = "wait_for_event" /\ e_outcome = "returned") =>
           \A b \in e_matches : b >= e_start => b >= e_yielded[1]

(***************************************************************************)
(* The rotating middleware at the grain of its lock: every `with lock:`    *)
(* block is entered and left in separate steps, the heap counts how often  *)
(* each EndpointState is in it, and times are left out (whether a popped    *)
(* state is ready is open).                                                 *)
(***************************************************************************)
otherThanLock == <<bridgeVars, finVars, modelVars, prepVars, rotVars, txVars, gasVars, evVars,
    moreVars>>

MaxCopies == 2

InitLockVars ==
    /\ l_lock = "free"
    /\ l_pool \in (SUBSET Providers) \ {{}}
    /\ l_heap = [p \in Providers |-> IF p \in l_pool THEN 1 ELSE 0]
    /\ l_th = [t \in Threads |-> IdleCaller]

InitLock ==
    /\ IdleBridge /\ IdleFinality /\ IdleModels /\ IdlePrepare /\ IdleRotating
    /\ IdleTx /\ IdleGas /\ IdleEvents /\ InitLockVars /\ IdleMore

\* a `with lock:` block that is left only after the request
LockKeptAfterPop(t) == t

\* leaving `with lock: state = heapq.heappop(heap)`
LockAfterPop(t) == "free"

\* rotating_backoff is called
LockCall(t) ==
    /\ l_th[t].pc = "idle"
    /\ l_th' = [l_th EXCEPT ![t] = [IdleCaller EXCEPT !.pc = "want_pop"]]
    /\ UNCHANGED <<l_lock, l_pool, l_heap>>
    /\ UNCHANGED otherThanLock

\* lock.__enter__ before the pop or the push
Acquire(t) ==
    /\ l_th[t].pc \in {"want_pop", "want_push"}
    /\ l_lock = "free"
    /\ l_lock' = t
    /\ l_th' = [l_th EXCEPT ![t].pc = IF l_th[t].pc = "want_pop" THEN "in_pop" ELSE "in_push"]
    /\ UNCHANGED <<l_pool, l_heap>>
    /\ UNCHANGED otherThanLock

\* step 1: heappop inside the lock, then the lock is left
PopAndRelease(t) ==
    /\ l_th[t].pc = "in_pop"
    /\ \E p \in Providers :
         /\ l_heap[p] > 0
         /\ l_heap' = [l_heap EXCEPT ![p] = @ - 1]
         /\ l_th' = [l_th EXCEPT ![t].pc = "popped", ![t].state = p, ![t].held = p]
    /\ l_lock' = LockAfterPop(t)
    /\ UNCHANGED l_pool
    /\ UNCHANGED otherThanLock

\* step 1 on an empty heap: heappop raises IndexError, the lock is left
PopEmptyAndRelease(t) ==
    /\ l_th[t].pc = "in_pop"
    /\ \A p \in Providers : l_heap[p] = 0
    /\ l_th' = [l_th EXCEPT ![t].pc = "idle", ![t].outcome = "IndexError"]
    /\ l_lock' = "free"
    /\ UNCHANGED <<l_pool, l_heap>>
    /\ UNCHANGED otherThanLock

\* step 2: the popped state is not ready: push back, then NoAvailableRPC
StateNotReady(t) ==
    /\ l_th[t].pc = "popped"
    /\ l_th' = [l_th EXCEPT ![t].pc = "want_push", ![t].after = "raise"]
    /\ UNCHANGED <<l_lock, l_pool, l_heap>>
    /\ UNCHANGED otherThanLock

\* step 3: the request is sent
StateReady(t) ==
    /\ l_th[t].pc = "popped"
    /\ l_th' = [l_th EXCEPT ![t].pc = "request"]
    /\ UNCHANGED <<l_lock, l_pool, l_heap>>
    /\ UNCHANGED otherThanLock

\* the request ends: a response without error (push, return), a response
\* with a JSON-RPC error (push, read the error message, continue), or an
\* exception (push, continue); a request that hangs takes no step
Response(t) ==
    /\ l_th[t].pc = "request"
    /\ \E a \in {"return", "error_message", "continue"} :
         l_th' = [l_th EXCEPT ![t].pc = "want_push", ![t].after = a]
    /\ UNCHANGED <<l_lock, l_pool, l_heap>>
    /\ UNCHANGED otherThanLock

\* heappush inside the lock, then the lock is left
PushAndRelease(t) ==
    /\ l_th[t].pc = "in_push"
    /\ l_heap' = [l_heap EXCEPT ![l_th[t].state] = @ + 1]
    /\ l_lock' = "free"
    /\ l_th' = [l_th EXCEPT
                  ![t].held = "none",
                  ![t].after = "none",
                  ![t].pc = CASE l_th[t].after = "raise" -> "idle"
                              [] l_th[t].after = "return" -> "idle"
                              [] l_th[t].after = "error_message" -> "error_message"
                              [] OTHER -> "want_pop",
                  ![t].outcome = CASE l_th[t].after = "raise" -> "NoAvailableRPC"
                                   [] l_th[t].after = "return" -> "returned"
                                   [] OTHER -> "none"]
    /\ UNCHANGED l_pool
    /\ UNCHANGED otherThanLock

\* JSON-RPC error branch after its push: error.get("message", "") on an
\* error object, then continue
ErrorMessageRead(t) ==
    /\ l_th[t].pc = "error_message"
    /\ l_th' = [l_th EXCEPT ![t].pc = "want_pop"]
    /\ UNCHANGED <<l_lock, l_pool, l_heap>>
    /\ UNCHANGED otherThanLock

\* JSON-RPC error branch after its push, the error member being a string:
\* error.get raises AttributeError inside the try block, `except Exception`
\* takes it and pushes `state` again
ErrorMessageRaises(t) ==
    /\ l_th[t].pc = "error_message"
    /\ l_heap[l_th[t].state] < MaxCopies
    /\ l_th' = [l_th EXCEPT ![t].pc = "want_push", ![t].after = "continue"]
    /\ UNCHANGED <<l_lock, l_pool, l_heap>>
    /\ UNCHANGED otherThanLock

NextLock ==
    \/ \E t \in Threads : LockCall(t)
    \/ \E t \in Threads : Acquire(t)
    \/ \E t \in Threads : PopAndRelease(t)
    \/ \E t \in Threads : PopEmptyAndRelease(t)
    \/ \E t \in Threads : StateNotReady(t)
    \/ \E t \in Threads : StateReady(t)
    \/ \E t \in Threads : Response(t)
    \/ \E t \in Threads : PushAndRelease(t)
    \/ \E t \in Threads : ErrorMessageRead(t)
    \/ \E t \in Threads : ErrorMessageRaises(t)

SpecLock == InitLock /\ [][NextLock]_vars

\* C33: the lock is held only by a thread that is about to pop or to push:
\* never by one whose request is in flight, so while a request hangs the lock
\* is free or about to be freed.
C33_NoLockAcrossRequest ==
    \A t \in Threads :
        /\ l_lock = t => l_th[t].pc \in {"in_pop", "in_push"}
        /\ l_th[t].pc = "request" => l_lock # t

C33_Witness ==
    /\ l_th["t1"].pc = "request"
    /\ l_lock = "t2"
    /\ l_th["t2"].pc = "in_pop"

\* C34: every provider of the pool is in the heap once or held by one call
\* in flight, never both and never neither; with no call in progress the
\* heap holds every provider once.
C34_ProvidersConserved ==
    \A p \in l_pool :
        l_heap[p] + Cardinality({ t \in Threads : l_th[t].held = p }) = 1


\* C37: what a BridgeTxResult held when a poll_bridge_progress call began
\* (source receipt, event id, target transaction hash, target receipt) it
\* still holds when the call has returned or raised.
C37_ProgressNeverRegresses ==
    PollEnded =>
        /\ pollStart.source_receipt.present => tx_result.source_receipt.present
        /\ pollStart.event_id # NoId => tx_result.event_id # NoId
        /\ pollStart.target_hash # 0 => tx_result.target_hash # 0
        /\ pollStart.target_receipt.present => tx_result.target_receipt.present

(***************************************************************************)
(* exp_backoff_retry: the wrapper around any function, for any attempts,   *)
(* initial_delay and exceptions.                                            *)
(***************************************************************************)
otherThanRetry == <<bridgeVars, finVars, modelVars, prepVars, rotVars, txVars, gasVars,
    evVars, lockVars, feeVars, wsVars>>

MaxAttempts == 3
MaxInitialDelay == 2

\* the exceptions the wrapped function raises, and the classes a caller
\* passes as `exceptions`
RaisedKinds == {"ValueError", "KeyError", "KeyboardInterrupt"}
ExceptionSets == {{"Exception"}, {"ValueError"}}

\* the class of python an exception derives from (or is)
IsSubclass(e, c) ==
    \/ e = c
    \/ c = "Exception" /\ e \in {"ValueError", "KeyError"}
    \/ c = "BaseException"

RECURSIVE Pow2(_)
Pow2(k) == IF k = 0 THEN 1 ELSE 2 * Pow2(k - 1)

\* the arguments of the decorator; attempts is a count of one or more, as at
\* every call site (the default 3, EVENT_LOG_RETRIES)
InitRetryVars ==
    /\ rt_pc = "call"
    /\ rt_attempts \in 1..MaxAttempts
    /\ rt_initial_delay \in 0..MaxInitialDelay
    /\ rt_exceptions \in ExceptionSets
    /\ rt_attempt = 0
    /\ rt_delay = rt_initial_delay
    /\ rt_calls = 0
    /\ rt_slept = <<>>
    /\ rt_raised = <<>>
    /\ rt_result = "none"

InitRetry ==
    /\ IdleBridge /\ IdleFinality /\ IdleModels /\ IdlePrepare /\ IdleRotating
    /\ IdleTx /\ IdleGas /\ IdleEvents /\ IdleLock /\ InitRetryVars /\ IdleFees /\ IdleWs

\* an except clause that catches whatever is raised
CaughtAlways(e, classes) == TRUE

\* `except exceptions as e`: e is an instance of one of the classes
IsCaught(e, classes) == \E c \in classes : IsSubclass(e, c)

\* `return func(*args, **kwargs)`: the function answers
FuncReturns ==
    /\ rt_pc = "call"
    /\ rt_attempt < rt_attempts
    /\ rt_calls' = rt_calls + 1
    /\ rt_pc' = "returned"
    /\ rt_result' = "value"
    /\ UNCHANGED <<rt_attempts, rt_initial_delay, rt_exceptions, rt_attempt, rt_delay,
                   rt_slept, rt_raised>>
    /\ UNCHANGED otherThanRetry

\* the function raises e: an exception outside `exceptions` leaves the
\* wrapper; one of them is re-raised on the last attempt; otherwise the
\* wrapper sleeps `delay`, doubles it and goes round the loop
FuncRaises ==
    /\ rt_pc = "call"
    /\ rt_attempt < rt_attempts
    /\ \E e \in RaisedKinds :
        /\ rt_calls' = rt_calls + 1
        /\ rt_raised' = Append(rt_raised, e)
        /\ IF ~IsCaught(e, rt_exceptions) \/ rt_attempt = rt_attempts - 1
           THEN /\ rt_pc' = "raised"
                /\ rt_result' = e
                /\ UNCHANGED <<rt_attempt, rt_delay, rt_slept>>
           ELSE /\ rt_slept' = Append(rt_slept, rt_delay)
                /\ rt_delay' = rt_delay * 2
                /\ rt_attempt' = rt_attempt + 1
                /\ UNCHANGED <<rt_pc, rt_result>>
    /\ UNCHANGED <<rt_attempts, rt_initial_delay, rt_exceptions>>
    /\ UNCHANGED otherThanRetry

NextRetry == FuncReturns \/ FuncRaises

SpecRetry == InitRetry /\ [][NextRetry]_vars

\* C36: the wrapped function is invoked at least once and at most attempts
\* times; a success ends the call with its result and it is the last
\* invocation; the k-th sleep is initial_delay * 2^(k-1); when every one of
\* the attempts invocations failed, the exception of the last is raised; an
\* exception outside `exceptions` is raised by the wrapper at once, so every
\* exception that was followed by a retry is inside `exceptions`.
C36_RetryBoundedExponential ==
    /\ rt_calls <= rt_attempts
    /\ rt_pc \in {"returned", "raised"} => rt_calls >= 1
    /\ rt_pc = "returned" =>
        /\ rt_result = "value"
        /\ Len(rt_raised) = rt_calls - 1
    /\ \A k \in 1..Len(rt_slept) : rt_slept[k] = rt_initial_delay * Pow2(k - 1)
    /\ Len(rt_slept) = rt_attempt
    /\ rt_pc = "call" => rt_calls = rt_attempt /\ rt_calls < rt_attempts
    /\ rt_pc = "raised" =>
        /\ Len(rt_raised) = rt_calls
        /\ rt_result = rt_raised[rt_calls]
        /\ Len(rt_slept) = rt_calls - 1
    /\ \A k \in 1..Len(rt_raised) :
        (~\E c \in rt_exceptions : IsSubclass(rt_raised[k], c)) =>
            /\ k = Len(rt_raised)
            /\ rt_pc = "raised"
            /\ rt_result = rt_raised[k]

\* all the attempts were used and failed, each after a sleep twice as long,
\* and the last exception left the wrapper
C36_Witness ==
    /\ rt_pc = "raised"
    /\ rt_attempts = MaxAttempts
    /\ rt_calls = rt_attempts
    /\ rt_initial_delay = MaxInitialDelay
    /\ Len(rt_slept) = MaxAttempts - 1
    /\ rt_result = rt_raised[rt_calls]
    /\ rt_raised[1] # rt_raised[rt_calls]


(***************************************************************************)
(* estimate_fees: priority fee and max fee from the fee history.           *)
(* GAS_FEE_BUFFER is a float in the code; it is kept as a fraction and the  *)
(* product is the exact one, which int() of the float product equals for    *)
(* the fees of a chain (far below 2^53).                                    *)
(***************************************************************************)
otherThanFees == <<bridgeVars, finVars, modelVars, prepVars, rotVars, txVars, gasVars,
    evVars, lockVars, retryVars, wsVars>>

MaxFeeBlocks == 2
MaxReward == 2
MaxBaseFee == 2
DefaultTip == 10000

\* the numbers of percentiles asked for
PercentileCounts == {1, 2}

\* the values GAS_FEE_BUFFER may have: 1/2, 1, 11/10
BufferFactors == {<<1, 2>>, <<1, 1>>, <<11, 10>>}

\* the rows of fee_history["reward"]: at most one reward per percentile
RewardRows(n) == UNION { [1..k -> 0..MaxReward] : k \in 0..n }

\* fee_history["baseFeePerGas"]: the last entry is the latest
BaseFeeHistories ==
    { <<b>> : b \in 0..MaxBaseFee } \cup { <<MaxBaseFee, b>> : b \in 0..MaxBaseFee }

RECURSIVE SumSeq(_)
SumSeq(q) == IF q = <<>> THEN 0 ELSE q[1] + SumSeq(Tail(q))

RECURSIVE Column(_, _)
\* [r[i] for r in rewards if len(r) > i]: i counts from 1 here
Column(rewards, i) ==
    IF rewards = <<>> THEN <<>>
    ELSE IF Len(rewards[1]) >= i
         THEN <<rewards[1][i]>> \o Column(Tail(rewards), i)
         ELSE Column(Tail(rewards), i)

\* a reward that counts when it is zero too
RewardNotNegative(r) == r >= 0

\* `r[i] > 0`
RewardCounts(r) == r > 0

\* nonzero_rewards of percentile i
NonzeroRewards(rewards, i) == SelectSeq(Column(rewards, i), RewardCounts)

\* estimated_tip: sum // len of the nonzero rewards, or default_tip
EstimatedTip(rewards, i) ==
    LET nz == NonzeroRewards(rewards, i)
    IN IF nz # <<>> THEN SumSeq(nz) \div Len(nz) ELSE DefaultTip

\* utils/w3.py: int((latest_base_fee + priority_fee) * GAS_FEE_BUFFER)
BufferedMaxFee(base, tip, buffer) == ((base + tip) * buffer[1]) \div buffer[2]

\* _bridge/utils.py: latest_base_fee + priority_fee
PlainMaxFee(base, tip) == base + tip

LatestBaseFee(base_fees) == base_fees[Len(base_fees)]

InitFeesVars ==
    /\ fee_pc = "called"
    /\ fee_percentiles \in PercentileCounts
    /\ fee_rewards \in UNION { [1..k -> RewardRows(fee_percentiles)] : k \in 0..MaxFeeBlocks }
    /\ fee_base_fees \in BaseFeeHistories
    /\ fee_buffer \in BufferFactors
    /\ fee_out = <<>>

InitFees ==
    /\ IdleBridge /\ IdleFinality /\ IdleModels /\ IdlePrepare /\ IdleRotating
    /\ IdleTx /\ IdleGas /\ IdleEvents /\ IdleLock /\ IdleRetry /\ InitFeesVars /\ IdleWs

\* estimate_fees of utils/w3.py
EstimateFeesBuffered ==
    /\ fee_pc = "called"
    /\ fee_pc' = "w3"
    /\ fee_out' = [i \in 1..fee_percentiles |->
                     LET tip == EstimatedTip(fee_rewards, i)
                     IN [maxFeePerGas |-> BufferedMaxFee(LatestBaseFee(fee_base_fees), tip,
                                                          fee_buffer),
                         maxPriorityFeePerGas |-> tip]]
    /\ UNCHANGED <<fee_percentiles, fee_rewards, fee_base_fees, fee_buffer>>
    /\ UNCHANGED otherThanFees

\* estimate_fees of _bridge/utils.py
EstimateFeesPlain ==
    /\ fee_pc = "called"
    /\ fee_pc' = "bridge"
    /\ fee_out' = [i \in 1..fee_percentiles |->
                     LET tip == EstimatedTip(fee_rewards, i)
                     IN [maxFeePerGas |-> PlainMaxFee(LatestBaseFee(fee_base_fees), tip),
                         maxPriorityFeePerGas |-> tip]]
    /\ UNCHANGED <<fee_percentiles, fee_rewards, fee_base_fees, fee_buffer>>
    /\ UNCHANGED otherThanFees

NextFees == EstimateFeesBuffered \/ EstimateFeesPlain

SpecFees == InitFees /\ [][NextFees]_vars

\* the strictly positive rewards of percentile i over the window
PositiveRewards(i) ==
    { <<b, fee_rewards[b][i]>> : b \in { c \in 1..Len(fee_rewards) :
                                          Len(fee_rewards[c]) >= i /\ fee_rewards[c][i] > 0 } }

RECURSIVE SumPairs(_)
SumPairs(S) == IF S = {} THEN 0 ELSE LET x == CHOOSE y \in S : TRUE
                                     IN x[2] + SumPairs(S \ {x})

\* C38: one entry per percentile; its priority fee is the floor of the mean
\* of the strictly positive rewards of that percentile, or the default tip
\* when there is none; its max fee is the latest base fee plus the priority
\* fee, times the buffer and cut to an integer where there is a buffer; so
\* the max fee is at least the priority fee when the buffer is at least 1.
C38_FeesFromHistory ==
    fee_pc \in {"w3", "bridge"} =>
        /\ Len(fee_out) = fee_percentiles
        /\ \A i \in 1..fee_percentiles :
            LET P == PositiveRewards(i)
                tip == fee_out[i].maxPriorityFeePerGas
                maxFee == fee_out[i].maxFeePerGas
                base == fee_base_fees[Len(fee_base_fees)]
            IN /\ P = {} => tip = DefaultTip
               /\ P # {} => /\ tip * Cardinality(P) <= SumPairs(P)
                            /\ SumPairs(P) < (tip + 1) * Cardinality(P)
               /\ fee_pc = "bridge" => maxFee = base + tip
               /\ fee_pc = "w3" =>
                    /\ maxFee * fee_buffer[2] <= (base + tip) * fee_buffer[1]
                    /\ (base + tip) * fee_buffer[1] < (maxFee + 1) * fee_buffer[2]
               /\ (fee_pc = "bridge" \/ fee_buffer[1] >= fee_buffer[2]) => maxFee >= tip

\* two percentiles over two blocks: the first has rewards 1 and 2 (mean 1),
\* the second only a zero (default tip), and the buffered max fee is above
\* the sum of base fee and tip
C38_Witness ==
    /\ fee_pc = "w3"
    /\ fee_percentiles = 2
    /\ fee_rewards = << <<1, 0>>, <<2>> >>
    /\ fee_out[1].maxPriorityFeePerGas = 1
    /\ fee_out[2].maxPriorityFeePerGas = DefaultTip
    /\ fee_buffer = <<11, 10>>
    /\ fee_out[2].maxFeePerGas > LatestBaseFee(fee_base_fees) + DefaultTip


(***************************************************************************)
(* WsClient: the message loop, the subscriptions of one channel name and    *)
(* two Channel objects that open and close on it.  The server answers the  *)
(* requests in the order they were sent; a connection that ends takes the  *)
(* server-side subscription and the unread traffic with it.                *)
(***************************************************************************)
otherThanWs == <<bridgeVars, finVars, modelVars, prepVars, rotVars, txVars, gasVars,
    evVars, lockVars, retryVars, feeVars>>

MaxWsOps == 4
MaxPublished == 2

Consumers == {"c1", "c2"}
Frames == {"TEXT", "BINARY"}

\* WsClient.__init__: nothing connected, no subscription, no request
InitWsVars ==
    /\ ws_key = FALSE
    /\ ws_set = {}
    /\ ws_server = FALSE
    /\ ws_conn = "closed"
    /\ ws_loop = "ended"
    /\ ws_wire = <<>>
    /\ ws_inbox = <<>>
    /\ ws_co = [c \in Consumers |-> ClosedChannel]
    /\ ws_last = NoMessage
    /\ ws_published = 0
    /\ ws_ops = 0

InitWs ==
    /\ IdleBridge /\ IdleFinality /\ IdleModels /\ IdlePrepare /\ IdleRotating
    /\ IdleTx /\ IdleGas /\ IdleEvents /\ IdleLock /\ IdleRetry /\ IdleFees /\ InitWsVars

\* _send_request up to its wait: _ensure_connected connects and starts the
\* message loop when there is no open websocket, then the request is sent
SendRequestWs(method, c, id) ==
    /\ ws_conn' = "open"
    /\ ws_loop' = "running"
    /\ ws_wire' = Append(ws_wire, [method |-> method, from |-> c, id |-> id])

\* _cleanup_pending_requests: every pending future gets WsConnectionError
CleanupPendingRequests(co) ==
    [c \in Consumers |->
        IF co[c].pc = "sub_wait" THEN [co[c] EXCEPT !.pc = "sub_failed", !.req = 0]
        ELSE IF co[c].pc = "unsub_wait" THEN [co[c] EXCEPT !.pc = "unsub_failed", !.req = 0]
        ELSE co[c]]

PendingRequests(co) == { c \in Consumers : co[c].pc \in {"sub_wait", "unsub_wait"} }

\* _message_loop leaves its `async for`: the finally block fails the pending
\* requests and closes the websocket
LoopEnds(kind, orphan) ==
    /\ ws_loop' = "ended"
    /\ ws_conn' = "closed"
    /\ ws_server' = FALSE
    /\ ws_wire' = <<>>
    /\ ws_inbox' = <<>>
    /\ ws_co' = CleanupPendingRequests(ws_co)
    /\ ws_last' = [kind |-> kind, orphan |-> orphan, to |-> {},
                   failed |-> PendingRequests(ws_co)]

\* Channel.open and _attach_channel up to the wait for the subscribe answer
ChannelOpen(c) ==
    /\ ws_co[c].pc = "idle"
    /\ ~ws_co[c].open
    /\ ws_ops < MaxWsOps
    /\ ws_ops' = ws_ops + 1
    /\ IF ~ws_key
       THEN /\ ws_key' = TRUE
            /\ ws_set' = {c}
            /\ SendRequestWs("subscribe", c, ws_ops + 1)
            /\ ws_co' = [ws_co EXCEPT ![c] = [pc |-> "sub_wait", open |-> FALSE,
                                              req |-> ws_ops + 1]]
       ELSE /\ ws_set' = ws_set \cup {c}
            /\ ws_co' = [ws_co EXCEPT ![c] = [pc |-> "idle", open |-> TRUE, req |-> 0]]
            /\ UNCHANGED <<ws_key, ws_conn, ws_loop, ws_wire>>
    /\ UNCHANGED <<ws_server, ws_inbox, ws_last, ws_published>>
    /\ UNCHANGED otherThanWs

\* _attach_channel's except branch: the subscribe request timed out or its
\* future got an exception; the queue is taken out, the key with the last
\* queue, and open() raises
SubscribeRaises(c) ==
    /\ ws_co[c].pc \in {"sub_wait", "sub_failed"}
    /\ IF ws_key /\ ws_set # {}
       THEN /\ ws_set' = ws_set \ {c}
            /\ ws_key' = (ws_set \ {c} # {})
       ELSE UNCHANGED <<ws_key, ws_set>>
    /\ ws_co' = [ws_co EXCEPT ![c] = ClosedChannel]
    /\ UNCHANGED <<ws_server, ws_conn, ws_loop, ws_wire, ws_inbox, ws_last,
                   ws_published, ws_ops>>
    /\ UNCHANGED otherThanWs

\* Channel.close and _detach_channel up to the wait for the unsubscribe answer
ChannelClose(c) ==
    /\ ws_co[c].pc = "idle"
    /\ ws_co[c].open
    /\ ws_ops < MaxWsOps
    /\ ws_ops' = ws_ops + 1
    /\ IF ~(ws_key /\ ws_set # {})
       THEN /\ ws_co' = [ws_co EXCEPT ![c] = ClosedChannel]
            /\ UNCHANGED <<ws_key, ws_set, ws_conn, ws_loop, ws_wire>>
       ELSE IF ws_set \ {c} = {}
       THEN /\ ws_set' = {}
            /\ ws_key' = FALSE
            /\ SendRequestWs("unsubscribe", c, ws_ops + 1)
            /\ ws_co' = [ws_co EXCEPT ![c] = [pc |-> "unsub_wait", open |-> FALSE,
                                              req |-> ws_ops + 1]]
       ELSE /\ ws_set' = ws_set \ {c}
            /\ ws_co' = [ws_co EXCEPT ![c] = ClosedChannel]
            /\ UNCHANGED <<ws_key, ws_conn, ws_loop, ws_wire>>
    /\ UNCHANGED <<ws_server, ws_inbox, ws_last, ws_published>>
    /\ UNCHANGED otherThanWs

\* _detach_channel's except branch: the unsubscribe request failed, which is
\* logged and ignored
UnsubscribeRaises(c) ==
    /\ ws_co[c].pc \in {"unsub_wait", "unsub_failed"}
    /\ ws_co' = [ws_co EXCEPT ![c] = ClosedChannel]
    /\ UNCHANGED <<ws_key, ws_set, ws_server, ws_conn, ws_loop, ws_wire, ws_inbox,
                   ws_last, ws_published, ws_ops>>
    /\ UNCHANGED otherThanWs

\* the server takes the next request and answers it
ServerHandles ==
    /\ ws_conn = "open"
    /\ ws_wire # <<>>
    /\ LET m == Head(ws_wire)
       IN /\ ws_server' = (m.method = "subscribe")
          /\ ws_inbox' = Append(ws_inbox, [kind |-> "response", frame |-> "TEXT",
                                           to |-> m.from, id |-> m.id])
    /\ ws_wire' = Tail(ws_wire)
    /\ UNCHANGED <<ws_key, ws_set, ws_conn, ws_loop, ws_co, ws_last, ws_published, ws_ops>>
    /\ UNCHANGED otherThanWs

\* the server publishes on the channel it holds a subscription for
ServerPublishes ==
    /\ ws_conn = "open"
    /\ ws_server
    /\ ws_published < MaxPublished
    /\ ws_published' = ws_published + 1
    /\ \E f \in Frames :
        ws_inbox' = Append(ws_inbox, [kind |-> "subscription", frame |-> f,
                                      to |-> "none", id |-> 0])
    /\ UNCHANGED <<ws_key, ws_set, ws_server, ws_conn, ws_loop, ws_wire, ws_co, ws_last,
                   ws_ops>>
    /\ UNCHANGED otherThanWs

\* _message_loop reads a message with an id: _handle_response completes the
\* future of that request if it is still waiting, and the caller goes on
\* (open() sets _open, close() returns)
HandleResponse ==
    /\ ws_loop = "running"
    /\ ws_inbox # <<>>
    /\ Head(ws_inbox).kind = "response"
    /\ LET m == Head(ws_inbox)
           c == m.to
       IN ws_co' = IF ws_co[c].req = m.id /\ ws_co[c].pc \in {"sub_wait", "unsub_wait"}
                   THEN [ws_co EXCEPT ![c] = [pc |-> "idle",
                                              open |-> (ws_co[c].pc = "sub_wait"),
                                              req |-> 0]]
                   ELSE ws_co
    /\ ws_inbox' = Tail(ws_inbox)
    /\ ws_last' = [kind |-> "response", orphan |-> FALSE, to |-> {}, failed |-> {}]
    /\ UNCHANGED <<ws_key, ws_set, ws_server, ws_conn, ws_loop, ws_wire, ws_published,
                   ws_ops>>
    /\ UNCHANGED otherThanWs

\* _message_loop reads a subscription message: _handle_subscription copies
\* the queues of the channel with list(self._subscriptions.get(channel)) and
\* puts the data on each.  With no key for the channel get() gives None and
\* list(None) raises TypeError: for a TEXT frame it leaves the loop through
\* `except Exception`, for a BINARY frame the inner except logs it
HandleSubscription ==
    /\ ws_loop = "running"
    /\ ws_inbox # <<>>
    /\ Head(ws_inbox).kind = "subscription"
    /\ IF ws_key
       THEN /\ ws_last' = [kind |-> "subscription", orphan |-> FALSE, to |-> ws_set,
                           failed |-> {}]
            /\ ws_inbox' = Tail(ws_inbox)
            /\ UNCHANGED <<ws_server, ws_conn, ws_loop, ws_wire, ws_co>>
       ELSE IF Head(ws_inbox).frame = "TEXT"
       THEN LoopEnds("subscription", TRUE)
       ELSE /\ ws_last' = [kind |-> "subscription", orphan |-> TRUE, to |-> {},
                           failed |-> {}]
            /\ ws_inbox' = Tail(ws_inbox)
            /\ UNCHANGED <<ws_server, ws_conn, ws_loop, ws_wire, ws_co>>
    /\ UNCHANGED <<ws_key, ws_set, ws_published, ws_ops>>
    /\ UNCHANGED otherThanWs

\* _message_loop reads CLOSE, CLOSING, CLOSED or ERROR and breaks
HandleClose ==
    /\ ws_loop = "running"
    /\ LoopEnds("close", FALSE)
    /\ UNCHANGED <<ws_key, ws_set, ws_published, ws_ops>>
    /\ UNCHANGED otherThanWs

NextWs ==
    \/ \E c \in Consumers : ChannelOpen(c)
    \/ \E c \in Consumers : SubscribeRaises(c)
    \/ \E c \in Consumers : ChannelClose(c)
    \/ \E c \in Consumers : UnsubscribeRaises(c)
    \/ ServerHandles
    \/ ServerPublishes
    \/ HandleResponse
    \/ HandleSubscription
    \/ HandleClose

SpecWs == InitWs /\ [][NextWs]_vars

\* C39: when the last message the loop handled was a subscription message
\* for a channel with no local consumer, it was dropped and nothing else
\* happened: the loop is running, the connection is open and no pending
\* request was failed.
C39_OrphanMessageDropped ==
    (ws_last.kind = "subscription" /\ ws_last.orphan) =>
        /\ ws_loop = "running"
        /\ ws_conn = "open"
        /\ ws_last.failed = {}

\* no open() or close() is under way and no request is unanswered
WsQuiescent ==
    /\ \A c \in Consumers : ws_co[c].pc = "idle"
    /\ ws_wire = <<>>
    /\ ws_inbox = <<>>

\* C40: on a live connection, once the open() and close() calls on the
\* channel are over, a consumer is registered only if the server holds the
\* subscription; and a subscribe that failed leaves no consumer registered.
C40_ConsumerOnlyIfSubscribed ==
    /\ []((WsQuiescent /\ ws_conn = "open") => (ws_set # {} => ws_server))
    /\ [][\A c \in Consumers :
            (ws_co[c].pc \in {"sub_wait", "sub_failed"} /\ ws_co'[c].pc = "idle"
                /\ ~ws_co'[c].open) =>
                    (ws_set' = {} /\ ~ws_key')]_vars

====
